---- MODULE Spec2Model ----
(***************************************************************************)
(* State-machine model of the plataforma-educativa server (src/server.js). *)
(* The file holds two variants of the same server: the better-sqlite3      *)
(* variant (lines 1-421) and the PostgreSQL variant (lines 422-1084).      *)
(* One behaviour runs one variant in one configuration; both are fixed by  *)
(* Init.  What a route handler answers and what it leaves behind is its    *)
(* outcome, a function of the state it finds and of the request.  A        *)
(* request is one action per turn of the event loop in which it reads or   *)
(* changes the state.  isAuthenticated runs when the request arrives.  The *)
(* handler of a JSON route of the SQLite variant is synchronous and runs   *)
(* in that turn; the handler of the PostgreSQL variant awaits its          *)
(* statement, which lands in a later turn, with the user id the request    *)
(* carried at the gate.  A gated multipart route is isAuthenticated,       *)
(* upload.single and the handler in three turns; the registration has no   *)
(* gate.  A delete of a file record, of a resource or of a topic hands the *)
(* stored file to fs.unlink, which ends in a later turn, and its           *)
(* PostgreSQL handler awaits its SELECT and then its DELETE.  An operator  *)
(* XOut is the whole request served with nothing in between.               *)
(***************************************************************************)
EXTENDS Integers, FiniteSets, Sequences, Bags, TLC

VARIABLES
  variant,       \* "sqlite" | "pg": which server of src/server.js runs
  isProduction,  \* NODE_ENV === 'production'
  created,       \* how many tables of the schema exist, in the order of
                 \* their CREATE TABLE statements
  users,         \* users table: id -> row
  sessions,      \* session store: client cookie -> req.session.userId (0: none)
  lapsed,        \* the clients whose session ran out (cookie.maxAge) and
                 \* who have not signed in since
  tasks,         \* tasks table: id -> row
  files,         \* files table: id -> row
  resources,     \* resources table: id -> row
  notes,         \* notes table: id -> row
  topics,        \* topics table: id -> row
  seq,           \* last id handed out by each table's AUTOINCREMENT / SERIAL
  fs,            \* stored names present in the upload directory
  clock,         \* Date.now() of the most recent upload
  pending,       \* bag of the delete requests whose DELETE statement or
                 \* whose unlink is still to come
  uploads,       \* bag of the requests whose handler is still to run: past
                 \* the gate, or registrations on their way through multer
  logins         \* bag of the login requests whose handler awaits its SELECT
                 \* or bcrypt.compare

vars == <<variant, isProduction, created, users, sessions, lapsed, tasks, files, resources,
          notes, topics, seq, fs, clock, pending, uploads, logins>>

(***************************************************************************)
(* Bounds of the model.                                                    *)
(***************************************************************************)
MaxUsers == 2     \* user ids handed out (a failed INSERT uses one up in PostgreSQL)
MaxRows  == 2     \* ids handed out by each of the four owner-scoped tables
MaxWide  == 1     \* ids handed out by the topics table
MaxClock == 2     \* distinct milliseconds at which uploads arrive
MaxRecords == 1   \* ids handed out by the five record tables together, in
                  \* the behaviours that use every route (SpecRecords)
MaxOwned == 2     \* the same, in the behaviours that use the routes of the
                  \* four owner-scoped tables with one form each (SpecOwned)
MaxInFlight == 1  \* requests between their arrival and their handler
MaxDeleting == 1  \* delete requests with a statement or an unlink to come
MaxLogins == 1    \* login requests between their arrival and their response
MaxServing == 1   \* requests of the two kinds served at once, in the behaviours
                  \* of SpecAuth, SpecProfile, SpecRecords, SpecOwned, SpecShared

(***************************************************************************)
(* JavaScript and SQL values.                                              *)
(***************************************************************************)
Undefined == "undefined"      \* a field absent from req.body / no req.file
Null      == "NULL"           \* JS null, SQL NULL

Sess      == {"s1", "s2"}     \* client cookie jars
\* the tables, in the order in which the server creates them
Schema    == <<"users", "tasks", "files", "resources", "notes", "topics">>
Tables    == {Schema[i] : i \in DOMAIN Schema}

\* !v
Falsy(v) == v \in {Undefined, Null, ""}

\* v || null
OrNull(v) == IF Falsy(v) THEN Null ELSE v

\* a statement parameter as the driver binds it: undefined is bound as NULL
Bind(v) == IF v = Undefined THEN Null ELSE v

\* bcrypt.hash(password, 10): a one-way digest of the password
Hash(pw) == <<"bcrypt", pw>>

\* bcrypt.compare(password, hash)
Compare(pw, h) == h = Hash(pw)

(***************************************************************************)
(* Request inputs: the values a client may put in each field.              *)
(***************************************************************************)
UserNames == {"u1", "u2"}
Emails    == {"e1", "e2"}
Passwords == {"p1", "p2"}
OrigNames == {"f"}                      \* file.originalname of an upload

OptOne   == {Undefined, "a"}            \* a text field with one set value
OptDone  == {Undefined, "0", "1"}       \* completed, as scripts.js sends it
RowIds  == 1..MaxRows                   \* :id path parameters

(***************************************************************************)
(* The upload handler (multer.diskStorage) and the upload directory.       *)
(***************************************************************************)
NoPath == <<>>                          \* no image / profile picture (null)

\* filename: Date.now() + '-' + file.originalname
StoredName(t, orig) == <<t, orig>>

\* `/uploads/${req.file.filename}`, the path written into the row
UploadUrl(name) == <<"/uploads/", name[1], name[2]>>

\* uploadsPath, resolved against the working directory (= __dirname)
UploadsDir(prod) == IF prod THEN "/app/data/uploads/" ELSE "__dirname/uploads/"

\* where multer writes the upload: uploadsPath + filename
StoredAt(prod, name) == <<UploadsDir(prod), name[1], name[2]>>

\* path.join(__dirname, isProduction ? '/app/data' + url : url)
UnlinkPath(prod, url) ==
  <<IF prod THEN "__dirname/app/data/uploads/" ELSE "__dirname/uploads/",
    url[2], url[3]>>

\* Date.now() at an upload: the millisecond of the previous upload or later
Times == {t \in {clock, clock + 1} : t <= MaxClock}

\* req.file ? `/uploads/${req.file.filename}` : null
FileUrl(f, t) == IF f = Undefined THEN NoPath ELSE UploadUrl(StoredName(t, f))

\* an UPDATE that sets the column whatever the form carries
ImageColumnAlways(old, image) == image

\* if (image) { query += ", image = ?"; params.push(image); }: the column
\* after the UPDATE, given its value before and the image of the request
ImageColumn(old, image) == IF image # NoPath THEN image ELSE old

\* fs.unlink(filePath, cb): removes the file (ok); the callback logs the
\* error when the file is not there or cannot be removed (~ok)
Unlink(store, path, ok) == IF ok THEN store \ {path} ELSE store

(***************************************************************************)
(* Outcomes: the response of a request and the state it leaves.            *)
(***************************************************************************)
\* nothing answered yet, nothing changed
Keep ==
  [status |-> 0, body |-> "none", rows |-> {}, ops |-> {},
   users |-> users, sessions |-> sessions, tasks |-> tasks, files |-> files,
   resources |-> resources, notes |-> notes, topics |-> topics, seq |-> seq,
   fs |-> fs, clock |-> clock, pending |-> pending, uploads |-> uploads,
   logins |-> logins]

\* res.status(status).json(body): rows are the rows the body carries, ops
\* what the handler did on the way ("dbRead", "dbWrite", "store", "unlink")
Reply(o, status, body, rows, ops) ==
  [o EXCEPT !.status = status, !.body = body, !.rows = rows,
            !.ops = @ \cup ops]

\* upload.single(field): stores the file part, if any, under its new name
Multer(o, f, t) ==
  IF f = Undefined
    THEN o
    ELSE [o EXCEPT !.fs = @ \cup {StoredAt(isProduction, StoredName(t, f))},
                   !.clock = t, !.ops = @ \cup {"store"}]

\* the state after the request
Apply(o) ==
  /\ users' = o.users
  /\ sessions' = o.sessions
  /\ tasks' = o.tasks
  /\ files' = o.files
  /\ resources' = o.resources
  /\ notes' = o.notes
  /\ topics' = o.topics
  /\ seq' = o.seq
  /\ fs' = o.fs
  /\ clock' = o.clock
  /\ pending' = o.pending
  /\ uploads' = o.uploads
  /\ logins' = o.logins
  /\ lapsed' = {s \in lapsed : o.sessions[s] = 0}
  /\ UNCHANGED <<variant, isProduction, created>>

\* o changes neither the database, nor the sessions, nor the upload directory
Untouched(o) ==
  /\ o.users = users /\ o.sessions = sessions /\ o.tasks = tasks
  /\ o.files = files /\ o.resources = resources /\ o.notes = notes
  /\ o.topics = topics /\ o.seq = seq /\ o.fs = fs

\* a gate that lets every request through: next() without the check
NoGate(s) == TRUE

\* function isAuthenticated(req, res, next): req.session.userId is truthy
isAuthenticated(s) == sessions[s] # 0

\* the body of the response to a throw that no try/catch of a handler
\* encloses (the SQLite variant registers no error middleware): the default
\* error handler of Express answers 500 with an HTML page, which carries
\* err.stack unless NODE_ENV is production
ErrorPage == IF isProduction THEN "htmlPage" ELSE "htmlPageWithStack"

\* res.status(401).json({ error: 'No autorizado' }); next() is not called
Deny == Reply(Keep, 401, "error", {}, {})

\* CREATE TABLE IF NOT EXISTS t has run, or the database had the table
Exists(t) == \E i \in 1..created : Schema[i] = t

\* the outcome o of a handler whose statement is on table t: the statement
\* throws while the table is not there, and the catch block answers
Query(t, up, o) == IF Exists(t) THEN o ELSE Reply(up, 500, "error", {}, {})

(***************************************************************************)
(* A gated route: app.METHOD(path, isAuthenticated, [upload.single(field),] *)
(* handler).  The gate runs when the request arrives.  On a multipart      *)
(* route multer reads the body over later turns of the event loop and      *)
(* calls the handler when the body has ended.  On a JSON route the gate    *)
(* calls the handler at once: the SQLite handler runs its statements in    *)
(* that same turn, the PostgreSQL handler awaits its statement.  Requests  *)
(* of any client are served in between.  POST /api/register is             *)
(* upload.single and the handler only.                                     *)
(***************************************************************************)
\* a request on its way to its handler: whether its route has the gate,
\* req.session.userId as the session middleware loaded it for this request
\* (0 where no gate asks for it), and req.file as a path (NoPath: no file
\* part stored so far)
Request(gated, uid, file) == [gated |-> gated, uid |-> uid, file |-> file]

\* the requests past the gate
InFlight == {r \in BagToSet(uploads) : r.gated}

\* the registrations on their way to the handler
Registering == {r \in BagToSet(uploads) : ~r.gated}

\* the outcome a handler starts from when it is called for request r
Take(r) == [Keep EXCEPT !.uploads = @ (-) SetToBag({r})]

\* the requests whose JSON handler runs its statement in this turn, the
\* SQLite handler called by the gate of a request that arrives, the
\* PostgreSQL handler when the statement it awaits lands
Due ==
  IF variant = "sqlite"
    THEN {Request(TRUE, sessions[s], NoPath) :
            s \in {x \in Sess : isAuthenticated(x)}}
    ELSE {r \in InFlight : r.file = NoPath}

\* the outcome the JSON handler of request c starts from
From(c) == IF variant = "sqlite" THEN Keep ELSE Take(c)

\* isAuthenticated of a request of client s that the handler does not serve
\* in the same turn: next() hands the request to upload.single, or the
\* handler sends the statement it awaits
ArriveOut(s) ==
  IF ~isAuthenticated(s) THEN Deny
  ELSE [Keep EXCEPT
          !.uploads = @ (+) SetToBag({Request(TRUE, sessions[s], NoPath)})]

Arrive(s) ==
  LET o == ArriveOut(s) IN
  BagCardinality(o.uploads) <= MaxInFlight /\ Apply(o)

\* POST /api/register arrives: no gate, upload.single takes the request
SubmitOut == [Keep EXCEPT !.uploads = @ (+) SetToBag({Request(FALSE, 0, NoPath)})]

Submit == BagCardinality(SubmitOut.uploads) <= MaxInFlight /\ Apply(SubmitOut)

\* the requests the server is serving, the ones on their way to their
\* handler and the logins on their way to their response, one at a time
OneByOne == BagCardinality(uploads) + BagCardinality(logins) <= MaxServing

\* upload.single stores the file part f of request r at time t
Store(r, f, t) ==
  /\ r \in BagToSet(uploads) /\ r.file = NoPath /\ f # Undefined
  /\ Apply([Multer(Keep, f, t) EXCEPT
              !.uploads = (@ (-) SetToBag({r}))
                (+) SetToBag({Request(r.gated, r.uid, FileUrl(f, t))})])

(***************************************************************************)
(* SQL helpers.                                                            *)
(***************************************************************************)
\* a query that fetches one row (stmt.get, rows[0]) where the list needs all
SelectFirstOwned(t, uid) ==
  LET owned == {j \in DOMAIN t : t[j].user_id = uid} IN
  {[id |-> i, row |-> t[i]] : i \in {j \in owned : \A k \in owned : j <= k}}

\* SELECT * FROM t WHERE user_id = ?
SelectByOwner(t, uid) ==
  {[id |-> i, row |-> t[i]] : i \in {j \in DOMAIN t : t[j].user_id = uid}}

\* SELECT * FROM t
SelectAll(t) == {[id |-> i, row |-> t[i]] : i \in DOMAIN t}

\* a WHERE clause that forgets the owner: ... WHERE id = ?
MatchesAnyOwner(t, id, uid) == id \in DOMAIN t

\* ... WHERE id = ? AND user_id = ?
Matches(t, id, uid) == id \in DOMAIN t /\ t[id].user_id = uid

\* an UPDATE that also writes the owner column, which no request carries
UpdateOwnedUnowned(t, id, uid, row) ==
  IF Matches(t, id, uid) THEN [t EXCEPT ![id] = [row EXCEPT !.user_id = 0]]
  ELSE t

\* UPDATE t SET ... WHERE id = ? AND user_id = ?
UpdateOwned(t, id, uid, row) ==
  IF Matches(t, id, uid) THEN [t EXCEPT ![id] = row] ELSE t

\* a DELETE that leaves the table as it is
DeleteOwnedKeeps(t, id, uid) == t

\* DELETE FROM t WHERE id = ? AND user_id = ?
DeleteOwned(t, id, uid) ==
  IF Matches(t, id, uid) THEN [i \in DOMAIN t \ {id} |-> t[i]] ELSE t

\* DELETE FROM topics WHERE id = ?
DeleteById(t, id) == [i \in DOMAIN t \ {id} |-> t[i]]

\* INSERT INTO t ...: the row gets the next id of the table
Insert(t, name, row) == t @@ ((seq[name] + 1) :> row)

Bump(name) == [seq EXCEPT ![name] = @ + 1]

\* a lookup that forgets the username: SELECT * FROM users
AnyUser(username) == DOMAIN users

\* SELECT * FROM users WHERE username = ?
UserByName(username) ==
  {i \in DOMAIN users : users[i].username = Bind(username)}

\* the UNIQUE constraints of users(username) and users(email)
UniqueViolation(username, email) ==
  \E i \in DOMAIN users :
    users[i].username = username \/ users[i].email = email

\* the ids an outcome hands out stay within the bounds of the model
Bounded(o) ==
  /\ o.seq["users"] <= MaxUsers
  /\ \A t \in Tables \ {"users", "topics"} : o.seq[t] <= MaxRows
  /\ o.seq["topics"] <= MaxWide

(***************************************************************************)
(* Initial state: the server listens on a new database.  No session, no    *)
(* row, empty upload directory.  The SQLite variant has created its tables *)
(* (db.exec, before app.listen); the PostgreSQL variant has called         *)
(* initializeDatabase without awaiting it, and serves requests while the   *)
(* CREATE TABLE statements run one after the other.                        *)
(***************************************************************************)
Empty == [i \in {} |-> Null]

Init ==
  /\ variant \in {"sqlite", "pg"}
  /\ isProduction \in BOOLEAN
  /\ created = IF variant = "sqlite" THEN Len(Schema) ELSE 0
  /\ users = Empty
  /\ sessions = [s \in Sess |-> 0]
  /\ lapsed = {}
  /\ tasks = Empty
  /\ files = Empty
  /\ resources = Empty
  /\ notes = Empty
  /\ topics = Empty
  /\ seq = [t \in Tables |-> 0]
  /\ fs = {}
  /\ clock = 1
  /\ pending = EmptyBag
  /\ uploads = EmptyBag
  /\ logins = EmptyBag

\* the next await pool.query(`CREATE TABLE IF NOT EXISTS ...`) has run
initializeDatabase ==
  /\ created < Len(Schema)
  /\ created' = created + 1
  /\ UNCHANGED <<variant, isProduction, users, sessions, lapsed, tasks,
                 files, resources, notes, topics, seq, fs, clock, pending,
                 uploads, logins>>

(***************************************************************************)
(* POST /api/register                                                      *)
(***************************************************************************)
\* a check that forgets the password: if (!username || !name || !email)
RegisterInvalidNoPassword(username, name, email, password) ==
  Falsy(username) \/ Falsy(name) \/ Falsy(email)

\* if (!username || !name || !email || !password)
RegisterInvalid(username, name, email, password) ==
  Falsy(username) \/ Falsy(name) \/ Falsy(email) \/ Falsy(password)

\* the status of the catch block around the INSERT
RegisterConflictStatus == 500

\* the row INSERT INTO users writes (register_date is left out of the model)
UserRow(username, name, email, password, phone, socials, pic) ==
  [username |-> username, name |-> name, email |-> email,
   password |-> Hash(password), profile_pic |-> pic,
   phone |-> OrNull(phone), socials |-> OrNull(socials)]

\* the handler, called when upload.single is through.  It awaits
\* bcrypt.hash before its INSERT; what it answers and writes is fixed by the
\* form and by the users table as the INSERT finds it, so that the handler
\* is taken at the INSERT (a form it rejects is answered at once)
RegisterHandler(up, file, username, name, email, password, phone, socials) ==
  IF RegisterInvalid(username, name, email, password)
    THEN Reply(up, 400, "error", {}, {})
  ELSE Query("users", up,
    IF UniqueViolation(username, email)
      THEN \* the INSERT throws; a SERIAL value is used up all the same
           [Reply(up, RegisterConflictStatus, "error", {}, {"dbWrite"})
              EXCEPT !.seq = IF variant = "pg" THEN Bump("users") ELSE @]
    ELSE [Reply(up, 200, "success", {}, {"dbWrite"})
            EXCEPT !.users = Insert(users, "users",
                               UserRow(username, name, email, password,
                                       phone, socials, file)),
                   !.seq = Bump("users")])

\* the request served with nothing in between
RegisterOut(f, t, username, name, email, password, phone, socials) ==
  RegisterHandler(Multer(Keep, f, t), FileUrl(f, t), username, name, email,
                  password, phone, socials)

Register(r, username, name, email, password, phone, socials) ==
  /\ r \in Registering
  /\ LET o == RegisterHandler(Take(r), r.file, username, name, email,
                              password, phone, socials) IN
     Bounded(o) /\ Apply(o)

(***************************************************************************)
(* POST /api/login                                                         *)
(***************************************************************************)
\* the outcome of the login handler of variant v:
\* <<status, body, user id bound (0: none)>>
LoginOutcomeIn(v, username, password) ==
  LET found == UserByName(username)
      user  == CHOOSE i \in found : TRUE
  IN
  IF v = "sqlite"
    THEN IF found = {}
           THEN <<500, ErrorPage, 0>>    \* user.password of undefined throws
         ELSE IF password = Undefined
           THEN <<500, "error", 0>>      \* bcrypt.compare rejects: .catch
         ELSE IF ~Compare(password, users[user].password)
           THEN <<400, "error", 0>>
         ELSE <<200, "successRedirect", user>>
    ELSE IF Falsy(username) \/ Falsy(password)
           THEN <<400, "error", 0>>
         ELSE IF found = {}
           THEN <<401, "error", 0>>
         ELSE IF ~Compare(password, users[user].password)
           THEN <<401, "error", 0>>
         ELSE <<200, "successRedirect", user>>

\* the outcome of the login handler of the running server: its SELECT
\* throws while the users table is not there
LoginOutcome(username, password) ==
  IF Exists("users") \/ Falsy(username) \/ Falsy(password)
    THEN LoginOutcomeIn(variant, username, password)
    ELSE <<500, "error", 0>>

\* the handler gets as far as bcrypt.compare: the SELECT has found the user
\* (PostgreSQL: after the check of the fields)
Compares(username, password) ==
  /\ UserByName(username) # {}
  /\ variant = "pg" => ~Falsy(username) /\ ~Falsy(password) /\ Exists("users")

\* a login request between its turns: the client, req.session.userId as the
\* session middleware loaded it when the request arrived, the fields of the
\* form while the SELECT is awaited (PostgreSQL), and, once the SELECT has
\* run and bcrypt.compare is under way, what the handler will answer:
\* <<status, body, user id>> (<<0, "none", 0>> before)
LoginRequest(s, was, username, password, out) ==
  [client |-> s, was |-> was, username |-> username, password |-> password,
   out |-> out]

\* the logins whose SELECT is awaited
Selecting == {r \in BagToSet(logins) : r.out[1] = 0}

\* the logins whose bcrypt.compare is under way
Comparing == {r \in BagToSet(logins) : r.out[1] # 0}

\* POST /api/login arrives for client s.  SQLite variant: the SELECT runs in
\* this turn; user.password throws when no user is found, else bcrypt.compare
\* is called.  PostgreSQL variant: the fields are checked and the SELECT is
\* sent.
LoginArriveOut(s, username, password) ==
  LET out == LoginOutcome(username, password) IN
  IF variant = "sqlite"
    THEN IF Compares(username, password)
           THEN [Keep EXCEPT
                   !.ops = {"dbRead"},
                   !.logins = @ (+) SetToBag({LoginRequest(s, sessions[s],
                                                Null, Null, out)})]
           ELSE Reply(Keep, out[1], out[2], {}, {"dbRead"})
    ELSE IF Falsy(username) \/ Falsy(password)
           THEN Reply(Keep, out[1], out[2], {}, {})
           ELSE [Keep EXCEPT
                   !.logins = @ (+) SetToBag({LoginRequest(s, sessions[s],
                                                username, password,
                                                <<0, "none", 0>>)})]

LoginArrive(s, username, password) ==
  LET o == LoginArriveOut(s, username, password) IN
  BagCardinality(o.logins) <= MaxLogins /\ Apply(o)

\* PostgreSQL variant: the awaited SELECT of login r lands: catch (500) when
\* it fails, 401 when no user is found, else bcrypt.compare is called on the
\* row as it is now
LoginSelectOut(r) ==
  LET up  == [Keep EXCEPT !.logins = @ (-) SetToBag({r})]
      out == LoginOutcome(r.username, r.password)
  IN
  IF Compares(r.username, r.password)
    THEN [up EXCEPT
            !.ops = {"dbRead"},
            !.logins = @ (+) SetToBag({LoginRequest(r.client, r.was, Null,
                                                    Null, out)})]
    ELSE Reply(up, out[1], out[2], {}, {"dbRead"})

LoginSelect(r) == r \in Selecting /\ Apply(LoginSelectOut(r))

\* a login that signs the client out when the attempt fails
LoginCompareOutResets(r) ==
  [Reply([Keep EXCEPT !.logins = @ (-) SetToBag({r})], r.out[1], r.out[2],
         {}, {})
     EXCEPT !.sessions = [@ EXCEPT ![r.client] = r.out[3]]]

\* bcrypt.compare of login r ends: the handler answers, and on a match it
\* sets req.session.userId = user.id first.  The session is written to the
\* store at the end of the response when it differs from the session the
\* request was loaded with (resave: false): a login of the user that the
\* session carried already writes nothing, also when that session has been
\* destroyed or has run out in between
LoginCompareOut(r) ==
  [Reply([Keep EXCEPT !.logins = @ (-) SetToBag({r})], r.out[1], r.out[2],
         {}, {})
     EXCEPT !.sessions = IF r.out[3] # 0 /\ r.out[3] # r.was
                           THEN [@ EXCEPT ![r.client] = r.out[3]]
                           ELSE @]

LoginCompare(r) == r \in Comparing /\ Apply(LoginCompareOut(r))

\* POST /api/login served with nothing in between
LoginOut(s, username, password) ==
  LET out  == LoginOutcome(username, password)
      read == IF variant = "pg" /\ (Falsy(username) \/ Falsy(password))
                THEN {} ELSE {"dbRead"}
  IN
  [Reply(Keep, out[1], out[2], {}, read)
     EXCEPT !.sessions = IF out[3] # 0 THEN [@ EXCEPT ![s] = out[3]] ELSE @]

(***************************************************************************)
(* GET /api/logout, and the end of a session's cookie.maxAge               *)
(***************************************************************************)
\* SQLite variant: req.session.destroy(); res.redirect('/').  PostgreSQL
\* variant: req.session.destroy(cb), and cb answers 500 when the session
\* store reports an error (~ok: the session is still in the store)
LogoutOut(s, ok) ==
  IF variant = "pg" /\ ~ok
    THEN Reply(Keep, 500, "error", {}, {})
    ELSE [Reply(Keep, 302, "redirect", {}, {})
            EXCEPT !.sessions = [@ EXCEPT ![s] = 0]]

Logout(s, ok) == Apply(LogoutOut(s, ok))

\* cookie: { maxAge: 24 * 60 * 60 * 1000 }: the session of client s runs
\* out, and the requests of the client carry no user id from then on
Expire(s) ==
  /\ sessions[s] # 0
  /\ sessions' = [sessions EXCEPT ![s] = 0]
  /\ lapsed' = lapsed \cup {s}
  /\ UNCHANGED <<variant, isProduction, created, users, tasks, files,
                 resources, notes, topics, seq, fs, clock, pending, uploads,
                 logins>>

(***************************************************************************)
(* GET /api/user, POST /api/user/update                                    *)
(***************************************************************************)
\* the handler, called for a request that carries user id uid, from the
\* outcome up of what came before it
GetUserHandler(up, uid) ==
  Query("users", up,
    IF uid \in DOMAIN users
      THEN Reply(up, 200, "row", {[id |-> uid, row |-> users[uid]]}, {"dbRead"})
    ELSE Reply(up, 404, "error", {}, {"dbRead"}))

\* the request of client s served with nothing in between
GetUserOut(s) ==
  IF ~isAuthenticated(s) THEN Deny ELSE GetUserHandler(Keep, sessions[s])

GetUser(c) == c \in Due /\ Apply(GetUserHandler(From(c), c.uid))

\* the UPDATE of users fails: email taken by another row (both variants), or
\* a NOT NULL column set to NULL (PostgreSQL schema only)
UserUpdateFails(uid, name, email) ==
  \/ \E i \in DOMAIN users : i # uid /\ users[i].email = OrNull(email)
                                     /\ OrNull(email) # Null
  \/ variant = "pg" /\ (OrNull(name) = Null \/ OrNull(email) = Null)

\* the handler, called for a request that carries user id uid and file
\* `file`, from the outcome up of what came before it
UpdateUserHandler(up, uid, file, bpic, name, email, phone, socials) ==
  LET \* req.file ? `/uploads/...` : req.body.profile_pic || null
      pic == IF file # NoPath THEN file ELSE bpic
  IN
  Query("users", up,
    IF UserUpdateFails(uid, name, email)
      THEN Reply(up, 500, "error", {}, {"dbWrite"})
    ELSE [Reply(up, 200, "success", {}, {"dbWrite"})
            EXCEPT !.users =
              IF uid \in DOMAIN users
                THEN [@ EXCEPT ![uid] =
                        [@ EXCEPT !.name = OrNull(name),
                           !.email = OrNull(email),
                           !.phone = OrNull(phone),
                           !.socials = OrNull(socials),
                           !.profile_pic = ImageColumn(@, pic)]]
                ELSE @])

\* the request of client s with file part f arriving at t, served with no
\* other request in between
UpdateUserOut(s, f, t, bpic, name, email, phone, socials) ==
  IF ~isAuthenticated(s) THEN Deny
  ELSE UpdateUserHandler(Multer(Keep, f, t), sessions[s], FileUrl(f, t),
                         bpic, name, email, phone, socials)

UpdateUser(r, bpic, name, email, phone, socials) ==
  /\ r \in InFlight
  /\ Apply(UpdateUserHandler(Take(r), r.uid, r.file, bpic, name, email,
                             phone, socials))

(***************************************************************************)
(* /api/tasks                                                              *)
(***************************************************************************)
\* POST, PostgreSQL variant: if (!title || !category); the SQLite variant
\* of the route checks nothing
TaskCreateInvalidIn(v, title, category) ==
  v = "pg" /\ (Falsy(title) \/ Falsy(category))

\* PUT, PostgreSQL variant:
\* if (!title || !category || completed === undefined); the SQLite variant
\* of the route checks nothing
TaskUpdateInvalidIn(v, title, category, completed) ==
  v = "pg" /\ (Falsy(title) \/ Falsy(category) \/ completed = Undefined)

\* completed as the UPDATE stores it: the value bound (SQLite), or the
\* value the BOOLEAN column of PostgreSQL keeps for the 1 / 0 sent
Completed(v) ==
  IF variant = "pg" THEN (IF v = "1" THEN "true" ELSE "false") ELSE Bind(v)

\* completed BOOLEAN DEFAULT 0 / DEFAULT FALSE
CompletedDefault == IF variant = "pg" THEN "false" ELSE "0"

\* a route that tells the caller when no row matched
WriteStatusNotFound(matched) == IF matched THEN 200 ELSE 404

\* the status of an UPDATE or DELETE route, whether a row matched or not
WriteStatus(matched) == 200

\* GET /api/tasks, /api/notes, /api/files, /api/resources: the handler of
\* the list of table `name`, whose rows are t, called for a request that
\* carries user id uid, from the outcome up of what came before it
ListHandler(up, uid, name, t) ==
  Query(name, up, Reply(up, 200, "rows", SelectByOwner(t, uid), {"dbRead"}))

\* a list request of client s served with nothing in between
ListTasksOut(s) ==
  IF ~isAuthenticated(s) THEN Deny
  ELSE ListHandler(Keep, sessions[s], "tasks", tasks)

ListTasks(c) == c \in Due /\ Apply(ListHandler(From(c), c.uid, "tasks", tasks))

CreateTaskHandler(up, uid, title, category) ==
  IF TaskCreateInvalidIn(variant, title, category)
    THEN Reply(up, 400, "error", {}, {})
  ELSE Query("tasks", up,
         [Reply(up, 200, "success", {}, {"dbWrite"})
            EXCEPT !.tasks = Insert(tasks, "tasks",
                               [user_id |-> uid, title |-> Bind(title),
                                category |-> Bind(category),
                                completed |-> CompletedDefault]),
                   !.seq = Bump("tasks")])

CreateTaskOut(s, title, category) ==
  IF ~isAuthenticated(s) THEN Deny
  ELSE CreateTaskHandler(Keep, sessions[s], title, category)

CreateTask(c, title, category) ==
  /\ c \in Due
  /\ LET o == CreateTaskHandler(From(c), c.uid, title, category) IN
     Bounded(o) /\ Apply(o)

UpdateTaskHandler(up, uid, id, title, category, completed) ==
  IF TaskUpdateInvalidIn(variant, title, category, completed)
    THEN Reply(up, 400, "error", {}, {})
  ELSE Query("tasks", up,
         [Reply(up, WriteStatus(Matches(tasks, id, uid)), "success", {},
                {"dbWrite"})
            EXCEPT !.tasks =
              IF Matches(tasks, id, uid)
                THEN UpdateOwned(tasks, id, uid,
                       [tasks[id] EXCEPT !.title = Bind(title),
                                         !.category = Bind(category),
                                         !.completed = Completed(completed)])
                ELSE @])

UpdateTaskOut(s, id, title, category, completed) ==
  IF ~isAuthenticated(s) THEN Deny
  ELSE UpdateTaskHandler(Keep, sessions[s], id, title, category, completed)

UpdateTask(c, id, title, category, completed) ==
  /\ c \in Due
  /\ Apply(UpdateTaskHandler(From(c), c.uid, id, title, category, completed))

DeleteTaskHandler(up, uid, id) ==
  Query("tasks", up,
    [Reply(up, WriteStatus(Matches(tasks, id, uid)), "success", {},
           {"dbWrite"})
       EXCEPT !.tasks = DeleteOwned(tasks, id, uid)])

DeleteTaskOut(s, id) ==
  IF ~isAuthenticated(s) THEN Deny
  ELSE DeleteTaskHandler(Keep, sessions[s], id)

DeleteTask(c, id) ==
  c \in Due /\ Apply(DeleteTaskHandler(From(c), c.uid, id))

(***************************************************************************)
(* /api/notes                                                              *)
(***************************************************************************)
\* POST and PUT, PostgreSQL variant: if (!content)
NoteInvalid(content) == variant = "pg" /\ Falsy(content)

ListNotesOut(s) ==
  IF ~isAuthenticated(s) THEN Deny
  ELSE ListHandler(Keep, sessions[s], "notes", notes)

ListNotes(c) == c \in Due /\ Apply(ListHandler(From(c), c.uid, "notes", notes))

CreateNoteHandler(up, uid, content) ==
  IF NoteInvalid(content)
    THEN Reply(up, 400, "error", {}, {})
  ELSE Query("notes", up,
         [Reply(up, 200, "success", {}, {"dbWrite"})
            EXCEPT !.notes = Insert(notes, "notes",
                               [user_id |-> uid, content |-> Bind(content)]),
                   !.seq = Bump("notes")])

CreateNoteOut(s, content) ==
  IF ~isAuthenticated(s) THEN Deny
  ELSE CreateNoteHandler(Keep, sessions[s], content)

CreateNote(c, content) ==
  /\ c \in Due
  /\ LET o == CreateNoteHandler(From(c), c.uid, content) IN
     Bounded(o) /\ Apply(o)

UpdateNoteHandler(up, uid, id, content) ==
  IF NoteInvalid(content)
    THEN Reply(up, 400, "error", {}, {})
  ELSE Query("notes", up,
         [Reply(up, WriteStatus(Matches(notes, id, uid)), "success", {},
                {"dbWrite"})
            EXCEPT !.notes =
              IF Matches(notes, id, uid)
                THEN UpdateOwned(notes, id, uid,
                       [notes[id] EXCEPT !.content = Bind(content)])
                ELSE @])

UpdateNoteOut(s, id, content) ==
  IF ~isAuthenticated(s) THEN Deny
  ELSE UpdateNoteHandler(Keep, sessions[s], id, content)

UpdateNote(c, id, content) ==
  c \in Due /\ Apply(UpdateNoteHandler(From(c), c.uid, id, content))

DeleteNoteHandler(up, uid, id) ==
  Query("notes", up,
    [Reply(up, WriteStatus(Matches(notes, id, uid)), "success", {},
           {"dbWrite"})
       EXCEPT !.notes = DeleteOwned(notes, id, uid)])

DeleteNoteOut(s, id) ==
  IF ~isAuthenticated(s) THEN Deny
  ELSE DeleteNoteHandler(Keep, sessions[s], id)

DeleteNote(c, id) ==
  c \in Due /\ Apply(DeleteNoteHandler(From(c), c.uid, id))

(***************************************************************************)
(* /api/files                                                              *)
(***************************************************************************)
\* POST: the status of the upload route before any INSERT (200: goes on).
\* SQLite variant: req.file.filename of undefined throws; PostgreSQL
\* variant: if (!req.file || !category)
FileCreateStatus(file, category) ==
  IF variant = "sqlite"
    THEN IF file = NoPath THEN 500 ELSE 200
    ELSE IF file = NoPath \/ Falsy(category) THEN 400 ELSE 200

ListFilesOut(s) ==
  IF ~isAuthenticated(s) THEN Deny
  ELSE ListHandler(Keep, sessions[s], "files", files)

ListFiles(c) == c \in Due /\ Apply(ListHandler(From(c), c.uid, "files", files))

CreateFileHandler(up, uid, file, category) ==
  IF FileCreateStatus(file, category) # 200
    THEN Reply(up, FileCreateStatus(file, category),
               IF variant = "sqlite" THEN ErrorPage ELSE "error", {}, {})
  ELSE Query("files", up,
         [Reply(up, 200, "success", {}, {"dbWrite"})
            EXCEPT !.files = Insert(files, "files",
                               [user_id |-> uid,
                                filename |-> file,
                                category |-> Bind(category)]),
                   !.seq = Bump("files")])

CreateFileOut(s, f, t, category) ==
  IF ~isAuthenticated(s) THEN Deny
  ELSE CreateFileHandler(Multer(Keep, f, t), sessions[s], FileUrl(f, t),
                         category)

CreateFile(r, category) ==
  /\ r \in InFlight
  /\ LET o == CreateFileHandler(Take(r), r.uid, r.file, category) IN
     Bounded(o) /\ Apply(o)

\* DELETE /api/files/:id served with nothing in between, its unlink over
\* and the file removed if it was there
DeleteFileOut(s, id) ==
  LET uid == sessions[s]
      hit == Matches(files, id, uid)
  IN
  IF ~isAuthenticated(s) THEN Deny
  ELSE Query("files", Keep,
         [Reply(Keep, WriteStatus(hit), "success", {},
                {"dbRead", "dbWrite"} \cup (IF hit THEN {"unlink"} ELSE {}))
            EXCEPT !.files = DeleteOwned(files, id, uid),
                   !.fs = IF hit
                            THEN Unlink(@, UnlinkPath(isProduction,
                                                      files[id].filename),
                                        TRUE)
                            ELSE @])

(***************************************************************************)
(* /api/resources                                                          *)
(***************************************************************************)
\* POST and PUT, both variants: if (!title || !link)
ResourceInvalid(title, link) == Falsy(title) \/ Falsy(link)

\* req.body.image || null: a path the client names, or none
BodyImages ==
  {NoPath} \cup {UploadUrl(StoredName(t, f)) : t \in 1..MaxClock, f \in OrigNames}

\* req.file ? `/uploads/${req.file.filename}` : req.body.image || null
NewImage(file, bimg) == IF file # NoPath THEN file ELSE bimg

ListResourcesOut(s) ==
  IF ~isAuthenticated(s) THEN Deny
  ELSE ListHandler(Keep, sessions[s], "resources", resources)

ListResources(c) ==
  c \in Due /\ Apply(ListHandler(From(c), c.uid, "resources", resources))

GetResourceHandler(up, uid, id) ==
  Query("resources", up,
    IF Matches(resources, id, uid)
      THEN Reply(up, 200, "row", {[id |-> id, row |-> resources[id]]},
                 {"dbRead"})
    ELSE Reply(up, 404, "error", {}, {"dbRead"}))

GetResourceOut(s, id) ==
  IF ~isAuthenticated(s) THEN Deny
  ELSE GetResourceHandler(Keep, sessions[s], id)

GetResource(c, id) ==
  c \in Due /\ Apply(GetResourceHandler(From(c), c.uid, id))

CreateResourceHandler(up, uid, file, title, link) ==
  IF ResourceInvalid(title, link)
    THEN Reply(up, 400, "error", {}, {})
  ELSE Query("resources", up,
         [Reply(up, 200, "success", {}, {"dbWrite"})
            EXCEPT !.resources = Insert(resources, "resources",
                                   [user_id |-> uid, title |-> title,
                                    link |-> link, image |-> file]),
                   !.seq = Bump("resources")])

CreateResourceOut(s, f, t, title, link) ==
  IF ~isAuthenticated(s) THEN Deny
  ELSE CreateResourceHandler(Multer(Keep, f, t), sessions[s], FileUrl(f, t),
                             title, link)

CreateResource(r, title, link) ==
  /\ r \in InFlight
  /\ LET o == CreateResourceHandler(Take(r), r.uid, r.file, title, link) IN
     Bounded(o) /\ Apply(o)

UpdateResourceHandler(up, uid, file, id, bimg, title, link) ==
  LET image == NewImage(file, bimg) IN
  IF ResourceInvalid(title, link)
    THEN Reply(up, 400, "error", {}, {})
  ELSE Query("resources", up,
         [Reply(up, WriteStatus(Matches(resources, id, uid)), "success", {},
                {"dbWrite"})
            EXCEPT !.resources =
              IF Matches(resources, id, uid)
                THEN UpdateOwned(resources, id, uid,
                       [resources[id] EXCEPT
                          !.title = title, !.link = link,
                          !.image = ImageColumn(@, image)])
                ELSE @])

UpdateResourceOut(s, id, f, t, bimg, title, link) ==
  IF ~isAuthenticated(s) THEN Deny
  ELSE UpdateResourceHandler(Multer(Keep, f, t), sessions[s], FileUrl(f, t),
                             id, bimg, title, link)

UpdateResource(r, id, bimg, title, link) ==
  /\ r \in InFlight
  /\ Apply(UpdateResourceHandler(Take(r), r.uid, r.file, id, bimg, title,
                                 link))

\* DELETE /api/resources/:id served with nothing in between, its unlink
\* over and the file removed if it was there
DeleteResourceOut(s, id) ==
  LET uid == sessions[s]
      hit == Matches(resources, id, uid)
      img == hit /\ resources[id].image # NoPath
  IN
  IF ~isAuthenticated(s) THEN Deny
  ELSE Query("resources", Keep,
         [Reply(Keep, WriteStatus(hit), "success", {},
                {"dbRead", "dbWrite"} \cup (IF img THEN {"unlink"} ELSE {}))
            EXCEPT !.resources = DeleteOwned(resources, id, uid),
                   !.fs = IF img
                            THEN Unlink(@, UnlinkPath(isProduction,
                                                      resources[id].image),
                                        TRUE)
                            ELSE @])

(***************************************************************************)
(* /api/topics: one catalogue shared by every signed-in user               *)
(***************************************************************************)
\* POST and PUT, PostgreSQL variant:
\* if (!subject || !subtopic || !explanation)
TopicInvalid(subject, subtopic, explanation) ==
  variant = "pg" /\ (Falsy(subject) \/ Falsy(subtopic) \/ Falsy(explanation))

\* a listing that shows the catalogue to the first user only
ListTopicsHandlerFirstUser(up, uid) ==
  Query("topics", up,
    Reply(up, 200, "rows", IF uid = 1 THEN SelectAll(topics) ELSE {},
          {"dbRead"}))

\* the handler, called for a request that carries user id uid, which it
\* does not read
ListTopicsHandler(up, uid) ==
  Query("topics", up, Reply(up, 200, "rows", SelectAll(topics), {"dbRead"}))

ListTopicsOut(s) ==
  IF ~isAuthenticated(s) THEN Deny ELSE ListTopicsHandler(Keep, sessions[s])

ListTopics(c) == c \in Due /\ Apply(ListTopicsHandler(From(c), c.uid))

GetTopicHandler(up, uid, id) ==
  Query("topics", up,
    IF id \in DOMAIN topics
      THEN Reply(up, 200, "row", {[id |-> id, row |-> topics[id]]}, {"dbRead"})
    ELSE Reply(up, 404, "error", {}, {"dbRead"}))

GetTopicOut(s, id) ==
  IF ~isAuthenticated(s) THEN Deny ELSE GetTopicHandler(Keep, sessions[s], id)

GetTopic(c, id) == c \in Due /\ Apply(GetTopicHandler(From(c), c.uid, id))

CreateTopicHandler(up, uid, file, subject, subtopic, explanation, link) ==
  IF TopicInvalid(subject, subtopic, explanation)
    THEN Reply(up, 400, "error", {}, {})
  ELSE Query("topics", up,
         [Reply(up, 200, "success", {}, {"dbWrite"})
            EXCEPT !.topics = Insert(topics, "topics",
                                [subject |-> Bind(subject),
                                 subtopic |-> Bind(subtopic),
                                 explanation |-> Bind(explanation),
                                 image |-> file, link |-> Bind(link)]),
                   !.seq = Bump("topics")])

CreateTopicOut(s, f, t, subject, subtopic, explanation, link) ==
  IF ~isAuthenticated(s) THEN Deny
  ELSE CreateTopicHandler(Multer(Keep, f, t), sessions[s], FileUrl(f, t),
                          subject, subtopic, explanation, link)

CreateTopic(r, subject, subtopic, explanation, link) ==
  /\ r \in InFlight
  /\ LET o == CreateTopicHandler(Take(r), r.uid, r.file, subject, subtopic,
                                 explanation, link) IN
     Bounded(o) /\ Apply(o)

UpdateTopicHandler(up, uid, file, id, bimg, subject, subtopic, explanation, link) ==
  LET image == NewImage(file, bimg) IN
  IF TopicInvalid(subject, subtopic, explanation)
    THEN Reply(up, 400, "error", {}, {})
  ELSE Query("topics", up,
         [Reply(up, WriteStatus(id \in DOMAIN topics), "success", {},
                {"dbWrite"})
            EXCEPT !.topics =
              IF id \in DOMAIN topics
                THEN [@ EXCEPT ![id] =
                        [@ EXCEPT !.subject = Bind(subject),
                                  !.subtopic = Bind(subtopic),
                                  !.explanation = Bind(explanation),
                                  !.link = Bind(link),
                                  !.image = ImageColumn(@, image)]]
                ELSE @])

UpdateTopicOut(s, id, f, t, bimg, subject, subtopic, explanation, link) ==
  IF ~isAuthenticated(s) THEN Deny
  ELSE UpdateTopicHandler(Multer(Keep, f, t), sessions[s], FileUrl(f, t),
                          id, bimg, subject, subtopic, explanation, link)

UpdateTopic(r, id, bimg, subject, subtopic, explanation, link) ==
  /\ r \in InFlight
  /\ Apply(UpdateTopicHandler(Take(r), r.uid, r.file, id, bimg, subject,
                              subtopic, explanation, link))

\* DELETE /api/topics/:id served with nothing in between, its unlink over
\* and the file removed if it was there
DeleteTopicOut(s, id) ==
  LET hit == id \in DOMAIN topics
      img == hit /\ topics[id].image # NoPath
  IN
  IF ~isAuthenticated(s) THEN Deny
  ELSE Query("topics", Keep,
         [Reply(Keep, WriteStatus(hit), "success", {},
                {"dbRead", "dbWrite"} \cup (IF img THEN {"unlink"} ELSE {}))
            EXCEPT !.topics = IF hit THEN DeleteById(topics, id) ELSE @,
                   !.fs = IF img
                            THEN Unlink(@, UnlinkPath(isProduction,
                                                      topics[id].image),
                                        TRUE)
                            ELSE @])

(***************************************************************************)
(* DELETE /api/files/:id, /api/resources/:id, /api/topics/:id in the turns *)
(* of the event loop.  The handler reads the row, hands the path it finds  *)
(* to fs.unlink, whose removal and callback come in a later turn, and runs *)
(* its DELETE statement.  The SQLite handler does all of it in one turn    *)
(* and answers; the PostgreSQL handler awaits the SELECT and then the      *)
(* DELETE, and requests of any client are served in between.               *)
(***************************************************************************)
DeleteRoutes == {"files", "resources", "topics"}

\* the delete requests with something to come
Pending == BagToSet(pending)

\* SELECT filename FROM files / SELECT image FROM resources WHERE id = ?
\* AND user_id = ? / SELECT image FROM topics WHERE id = ?: the path of the
\* row, if there is one
Selected(route, id, uid) ==
  IF route = "files"
    THEN IF Matches(files, id, uid) THEN files[id].filename ELSE NoPath
  ELSE IF route = "resources"
    THEN IF Matches(resources, id, uid) THEN resources[id].image ELSE NoPath
  ELSE IF id \in DOMAIN topics THEN topics[id].image ELSE NoPath

\* a delete request when its SELECT has answered: if (row && path)
\* fs.unlink(filePath, cb).  The topics handler does not read the user id
Deleting(route, id, uid, target) ==
  [route |-> route, id |-> id, uid |-> IF route = "topics" THEN 0 ELSE uid,
   target |-> target, unlink |-> IF target # NoPath THEN "issued" ELSE "none",
   row |-> "todo"]

\* what is to come of request q: nothing when its statement has run and no
\* unlink is due; the unlink alone when the statement has run
Left(q) ==
  IF q.row = "todo" THEN SetToBag({q})
  ELSE IF q.unlink = "issued"
    THEN SetToBag({[q EXCEPT !.route = "none", !.id = 0, !.uid = 0,
                             !.row = "done"]})
  ELSE EmptyBag

\* the row the DELETE statement of request q finds
Hit(q) ==
  IF q.route = "files" THEN Matches(files, q.id, q.uid)
  ELSE IF q.route = "resources" THEN Matches(resources, q.id, q.uid)
  ELSE q.id \in DOMAIN topics

\* DELETE FROM files / resources WHERE id = ? AND user_id = ? / DELETE FROM
\* topics WHERE id = ?, and res.json({ success: true })
RunDelete(o, q) ==
  [Reply(o, WriteStatus(Hit(q)), "success", {}, {"dbWrite"}) EXCEPT
     !.files = IF q.route = "files" THEN DeleteOwned(@, q.id, q.uid) ELSE @,
     !.resources = IF q.route = "resources"
                     THEN DeleteOwned(@, q.id, q.uid) ELSE @,
     !.topics = IF q.route = "topics" THEN DeleteById(@, q.id) ELSE @]

\* the DELETE statement throws: the 500 of the catch block (PostgreSQL) or
\* of the default error handler (SQLite)
FailDelete(o) ==
  Reply(o, 500, IF variant = "sqlite" THEN ErrorPage ELSE "error", {}, {})

\* the SELECT of the handler, called for a request that carries user id
\* uid, and what follows its result in the same turn: the unlink is handed
\* over; the PostgreSQL handler sends its DELETE statement, the SQLite
\* handler runs it (ok: it does not throw) and answers
DeleteSelectHandler(up, uid, route, id, ok) ==
  LET q   == Deleting(route, id, uid, Selected(route, id, uid))
      got == [up EXCEPT
                !.ops = {"dbRead"}
                        \cup (IF q.target # NoPath THEN {"unlink"} ELSE {})]
  IN
  Query(route, up,
    IF variant = "pg"
      THEN [got EXCEPT !.pending = @ (+) Left(q)]
    ELSE IF ok
      THEN [RunDelete(got, q) EXCEPT
              !.pending = @ (+) Left([q EXCEPT !.row = "done"])]
    ELSE [FailDelete(got) EXCEPT
            !.pending = @ (+) Left([q EXCEPT !.row = "failed"])])

\* the gate and the handler up to there, with nothing in between
DeleteSelectOut(s, route, id, ok) ==
  IF ~isAuthenticated(s) THEN Deny
  ELSE DeleteSelectHandler(Keep, sessions[s], route, id, ok)

DeleteSelect(c, route, id, ok) ==
  /\ c \in Due
  /\ LET o == DeleteSelectHandler(From(c), c.uid, route, id, ok) IN
     BagCardinality(o.pending) <= MaxDeleting /\ Apply(o)

\* the awaited DELETE statement of the PostgreSQL handler runs (ok) or
\* fails, and the handler answers
DeleteRunOut(q, ok) ==
  IF ok
    THEN [RunDelete(Keep, q) EXCEPT
            !.pending = (@ (-) SetToBag({q}))
                        (+) Left([q EXCEPT !.row = "done"])]
    ELSE [FailDelete(Keep) EXCEPT
            !.pending = (@ (-) SetToBag({q}))
                        (+) Left([q EXCEPT !.row = "failed"])]

DeleteRun(q, ok) ==
  q \in Pending /\ q.row = "todo" /\ Apply(DeleteRunOut(q, ok))

\* the unlink ends and its callback runs: the file is removed (ok), or
\* the callback logs the error
UnlinkDoneOut(q, ok) ==
  [Keep EXCEPT
     !.fs = Unlink(@, UnlinkPath(isProduction, q.target), ok),
     !.ops = {"unlink"},
     !.pending = (@ (-) SetToBag({q})) (+) Left([q EXCEPT !.unlink = "done"])]

UnlinkDone(q, ok) ==
  q \in Pending /\ q.unlink = "issued" /\ Apply(UnlinkDoneOut(q, ok))

(***************************************************************************)
(* The accounts the clients use.                                           *)
(***************************************************************************)
NameOf(s) == IF s = "s1" THEN "u1" ELSE "u2"      \* the account of a client
PassOf(u) == IF u = "u1" THEN "p1" ELSE "p2"

\* the fields of a registration or login form: absent, empty, or filled in
FormNames == {Undefined, ""} \cup UserNames
FormMails == {Undefined} \cup Emails
FormPass  == {Undefined} \cup Passwords

(***************************************************************************)
(* Registration: forms of every shape, on a database whose tables are      *)
(* being created.                                                          *)
(***************************************************************************)
NextRegister ==
  \/ initializeDatabase
  \/ Submit
  \/ \E r \in Registering, f \in OrigNames, t \in Times : Store(r, f, t)
  \/ \E r \in Registering, username \in FormNames, name \in OptOne,
        email \in FormMails, password \in FormPass,
        contact \in {<<Undefined, Undefined>>, <<"a", "b">>} :
       Register(r, username, name, email, password, contact[1], contact[2])

SpecRegister == Init /\ [][NextRegister]_vars

(***************************************************************************)
(* Accounts and sessions: registration without the optional fields, login  *)
(* with forms of every shape, logout, session expiry.  The server serves   *)
(* one registration, gated request or login at a time.                     *)
(***************************************************************************)
NextAuth ==
  \/ initializeDatabase
  \/ Submit /\ OneByOne'
  \/ \E r \in Registering, username \in FormNames, name \in OptOne,
        email \in FormMails, password \in FormPass :
       Register(r, username, name, email, password, Undefined, Undefined)
  \/ \E s \in Sess, username \in FormNames, password \in FormPass :
       LoginArrive(s, username, password) /\ OneByOne'
  \/ \E r \in Selecting : LoginSelect(r)
  \/ \E r \in Comparing : LoginCompare(r)
  \/ \E s \in Sess, ok \in BOOLEAN : Logout(s, ok)
  \/ \E s \in Sess : Expire(s)
  \/ \E s \in Sess : Arrive(s) /\ OneByOne'
  \/ \E c \in Due : GetUser(c)

SpecAuth == Init /\ [][NextAuth]_vars

(***************************************************************************)
(* Accounts and profiles: registration, login, logout, profile update.     *)
(***************************************************************************)
NextProfile ==
  \/ initializeDatabase
  \/ Submit /\ OneByOne'
  \/ \E r \in BagToSet(uploads), f \in OrigNames, t \in Times : Store(r, f, t)
  \/ \E r \in Registering, username \in UserNames, email \in Emails,
        phone \in OptOne :
       Register(r, username, "a", email, "p1", phone, Undefined)
  \/ \E s \in Sess, username \in UserNames :
       LoginArrive(s, username, "p1") /\ OneByOne'
  \/ \E r \in Selecting : LoginSelect(r)
  \/ \E r \in Comparing : LoginCompare(r)
  \/ \E s \in Sess, ok \in BOOLEAN : Logout(s, ok)
  \/ \E s \in Sess : Arrive(s) /\ OneByOne'
  \/ \E r \in InFlight, name \in OptOne, email \in FormMails,
        phone \in OptOne :
       UpdateUser(r, NoPath, name, email, phone, Undefined)

SpecProfile == Init /\ [][NextProfile]_vars

(***************************************************************************)
(* Records.  The database outlives the process: the server starts on a     *)
(* database that has every table, and in which the two accounts are        *)
(* registered already.                                                     *)
(***************************************************************************)
InitRecords ==
  /\ variant \in {"sqlite", "pg"}
  /\ isProduction \in BOOLEAN
  /\ created = Len(Schema)
  /\ users = (1 :> UserRow("u1", "a", "e1", "p1", Undefined, Undefined, NoPath))
             @@ (2 :> UserRow("u2", "a", "e2", "p2", Undefined, Undefined, NoPath))
  /\ sessions = [s \in Sess |-> 0]
  /\ lapsed = {}
  /\ tasks = Empty
  /\ files = Empty
  /\ resources = Empty
  /\ notes = Empty
  /\ topics = Empty
  /\ seq = [t \in Tables |-> IF t = "users" THEN 2 ELSE 0]
  /\ fs = {}
  /\ clock = 1
  /\ pending = EmptyBag
  /\ uploads = EmptyBag
  /\ logins = EmptyBag

\* the ids the record tables have handed out so far
Handed ==
  seq["tasks"] + seq["files"] + seq["resources"] + seq["notes"]
    + seq["topics"]

\* they stay within the bound of the behaviours that use every route
Within == Handed <= MaxRecords

\* the :id path parameters of these behaviours: an id that a table may
\* have handed out (the row is there, or not yet, or no longer)
RecordIds == 1..MaxRecords

NextRecords ==
  \/ \E s \in Sess :
       /\ ~isAuthenticated(s)
       /\ LoginArrive(s, NameOf(s), PassOf(NameOf(s))) /\ OneByOne'
  \/ \E r \in Selecting : LoginSelect(r)
  \/ \E r \in Comparing : LoginCompare(r)
  \/ \E s \in Sess, ok \in BOOLEAN : Logout(s, ok)
  \/ \E s \in Sess : Arrive(s) /\ OneByOne'
  \/ \E r \in InFlight, f \in OrigNames, t \in Times : Store(r, f, t)
  \/ \E c \in Due : GetUser(c)
  \/ \E r \in InFlight :
       UpdateUser(r, NoPath, "a", users[r.uid].email, Undefined, Undefined)
  \/ \E c \in Due : ListTasks(c)
  \/ \E c \in Due, title \in OptOne : CreateTask(c, title, "a") /\ Within'
  \/ \E c \in Due, id \in RecordIds, completed \in OptDone :
       UpdateTask(c, id, "b", Undefined, completed)
  \/ \E c \in Due, id \in RecordIds : DeleteTask(c, id)
  \/ \E c \in Due : ListNotes(c)
  \/ \E c \in Due : CreateNote(c, "a") /\ Within'
  \/ \E c \in Due, id \in RecordIds : UpdateNote(c, id, "b")
  \/ \E c \in Due, id \in RecordIds : DeleteNote(c, id)
  \/ \E c \in Due : ListFiles(c)
  \/ \E r \in InFlight, category \in OptOne :
       CreateFile(r, category) /\ Within'
  \/ \E c \in Due : ListResources(c)
  \/ \E c \in Due, id \in RecordIds : GetResource(c, id)
  \/ \E r \in InFlight, title \in OptOne :
       CreateResource(r, title, "a") /\ Within'
  \/ \E r \in InFlight, id \in RecordIds, bimg \in BodyImages :
       UpdateResource(r, id, bimg, "b", "a")
  \/ \E c \in Due : ListTopics(c)
  \/ \E c \in Due, id \in RecordIds : GetTopic(c, id)
  \/ \E r \in InFlight, subject \in OptOne :
       CreateTopic(r, subject, "a", "a", Undefined) /\ Within'
  \/ \E r \in InFlight, id \in RecordIds, bimg \in BodyImages :
       UpdateTopic(r, id, bimg, "b", "a", "a", Undefined)
  \/ \E c \in Due, route \in DeleteRoutes, id \in RecordIds :
       DeleteSelect(c, route, id, TRUE)
  \/ \E q \in Pending : DeleteRun(q, TRUE)
  \/ \E q \in Pending, ok \in BOOLEAN : UnlinkDone(q, ok)

SpecRecords == InitRecords /\ [][NextRecords]_vars

(***************************************************************************)
(* Sessions over stored notes: either account on either client, with its   *)
(* password or with the other one's, logout, expiry, and the notes routes. *)
(***************************************************************************)
NextSession ==
  \/ \E s \in Sess, username \in UserNames, password \in Passwords :
       LoginArrive(s, username, password)
  \/ \E r \in Selecting : LoginSelect(r)
  \/ \E r \in Comparing : LoginCompare(r)
  \/ \E s \in Sess, ok \in BOOLEAN : Logout(s, ok)
  \/ \E s \in Sess : Expire(s)
  \/ \E s \in Sess : Arrive(s)
  \/ \E c \in Due : GetUser(c)
  \/ \E c \in Due : ListNotes(c)
  \/ \E c \in Due : CreateNote(c, "a")
  \/ \E c \in Due, id \in RowIds : UpdateNote(c, id, "b")
  \/ \E c \in Due, id \in RowIds : DeleteNote(c, id)

SpecSession == InitRecords /\ [][NextSession]_vars

(***************************************************************************)
(* The owner-scoped tables (tasks, notes, files, resources) with several   *)
(* rows: each form is sent with one set of values, and the uploads arrive  *)
(* within one millisecond (uploads at different milliseconds are in the    *)
(* behaviours of SpecShared and SpecRecords).                              *)
(***************************************************************************)
WithinOwned == Handed <= MaxOwned

NextOwned ==
  \/ \E s \in Sess :
       /\ ~isAuthenticated(s)
       /\ LoginArrive(s, NameOf(s), PassOf(NameOf(s))) /\ OneByOne'
  \/ \E r \in Selecting : LoginSelect(r)
  \/ \E r \in Comparing : LoginCompare(r)
  \/ \E s \in Sess, ok \in BOOLEAN : Logout(s, ok)
  \/ \E s \in Sess : Arrive(s) /\ OneByOne'
  \/ \E r \in InFlight, f \in OrigNames : Store(r, f, clock)
  \/ \E c \in Due : ListTasks(c)
  \/ \E c \in Due : CreateTask(c, "a", "a") /\ WithinOwned'
  \/ \E c \in Due, id \in RowIds : UpdateTask(c, id, "b", "a", "1")
  \/ \E c \in Due, id \in RowIds : DeleteTask(c, id)
  \/ \E c \in Due : ListNotes(c)
  \/ \E c \in Due : CreateNote(c, "a") /\ WithinOwned'
  \/ \E c \in Due, id \in RowIds : UpdateNote(c, id, "b")
  \/ \E c \in Due, id \in RowIds : DeleteNote(c, id)
  \/ \E c \in Due : ListFiles(c)
  \/ \E r \in InFlight : CreateFile(r, "a") /\ WithinOwned'
  \/ \E c \in Due : ListResources(c)
  \/ \E c \in Due, id \in RowIds : GetResource(c, id)
  \/ \E r \in InFlight : CreateResource(r, "a", "a") /\ WithinOwned'
  \/ \E r \in InFlight, id \in RowIds :
       UpdateResource(r, id, NoPath, "b", "a")
  \/ \E c \in Due, route \in {"files", "resources"}, id \in RowIds :
       DeleteSelect(c, route, id, TRUE)
  \/ \E q \in Pending : DeleteRun(q, TRUE)
  \/ \E q \in Pending : UnlinkDone(q, TRUE)

SpecOwned == InitRecords /\ [][NextOwned]_vars

(***************************************************************************)
(* Files and resources side by side: the users upload files and keep       *)
(* resources whose image field is a path the client names.                 *)
(***************************************************************************)
NextShared ==
  \/ \E s \in Sess :
       /\ ~isAuthenticated(s)
       /\ LoginArrive(s, NameOf(s), PassOf(NameOf(s))) /\ OneByOne'
  \/ \E r \in Selecting : LoginSelect(r)
  \/ \E r \in Comparing : LoginCompare(r)
  \/ \E s \in Sess, ok \in BOOLEAN : Logout(s, ok)
  \/ \E s \in Sess : Arrive(s) /\ OneByOne'
  \/ \E r \in InFlight, f \in OrigNames, t \in Times : Store(r, f, t)
  \/ \E r \in InFlight : CreateFile(r, "a") /\ WithinOwned'
  \/ \E r \in InFlight : CreateResource(r, "a", "a") /\ WithinOwned'
  \/ \E r \in InFlight, id \in RowIds, bimg \in BodyImages :
       UpdateResource(r, id, bimg, "a", "a")
  \/ \E c \in Due, route \in {"files", "resources"}, id \in RowIds :
       DeleteSelect(c, route, id, TRUE)
  \/ \E q \in Pending : DeleteRun(q, TRUE)
  \/ \E q \in Pending : UnlinkDone(q, TRUE)

SpecShared == InitRecords /\ [][NextShared]_vars

(***************************************************************************)
(* File records, with the delete request turn by turn, a store that may    *)
(* fail at the DELETE statement and an unlink that may fail.               *)
(***************************************************************************)
NextFileSteps ==
  \/ \E s \in Sess : LoginArrive(s, NameOf(s), PassOf(NameOf(s)))
  \/ \E r \in Selecting : LoginSelect(r)
  \/ \E r \in Comparing : LoginCompare(r)
  \/ \E s \in Sess : Arrive(s)
  \/ \E r \in InFlight, t \in Times : Store(r, "f", t)
  \/ \E r \in InFlight : CreateFile(r, "a")
  \/ \E c \in Due, id \in RowIds, ok \in BOOLEAN :
       DeleteSelect(c, "files", id, ok)
  \/ \E q \in Pending, ok \in BOOLEAN : DeleteRun(q, ok)
  \/ \E q \in Pending, ok \in BOOLEAN : UnlinkDone(q, ok)

SpecFileSteps == InitRecords /\ [][NextFileSteps]_vars

(***************************************************************************)
(* One user's resource: uploads of a new image (PUT) while a delete of the *)
(* resource is in flight.                                                  *)
(***************************************************************************)
NextRace ==
  \/ LoginArrive("s1", "u1", "p1")
  \/ \E r \in Selecting : LoginSelect(r)
  \/ \E r \in Comparing : LoginCompare(r)
  \/ \E s \in Sess : Arrive(s)
  \/ \E r \in InFlight, t \in Times : Store(r, "f", t)
  \/ \E r \in InFlight : CreateResource(r, "a", "a")
  \/ \E r \in InFlight, id \in RowIds :
       UpdateResource(r, id, NoPath, "b", "b")
  \/ \E c \in Due, id \in RowIds : DeleteSelect(c, "resources", id, TRUE)
  \/ \E q \in Pending : DeleteRun(q, TRUE)
  \/ \E q \in Pending : UnlinkDone(q, TRUE)

SpecRace == InitRecords /\ [][NextRace]_vars

(***************************************************************************)
(* Properties.  A property about the response of a request, or about what  *)
(* the request leaves behind, is stated over the outcome of the handler in *)
(* every reachable state and for every request of the bounded input sets.  *)
(***************************************************************************)
\* the row of table t with this id is still there and as it was in `before`
RowKept(before, after, id) == id \in DOMAIN after /\ after[id] = before[id]

\* the values over which the properties quantify: a text field of a form,
\* absent, empty, or set
Strs    == {"a", "b"}
OptStr  == {Undefined, ""} \cup Strs
OptNew  == {Undefined, "", "a"}         \* a field of a form that creates
OptEdit == {Undefined, "b"}             \* a field of a form that edits

\* the file part and the image field of a multipart form: no image, a path
\* in the image field, or an upload arriving at time t: <<file, t, image>>
ImageParts ==
  {<<Undefined, clock, bimg>> : bimg \in BodyImages}
  \cup {<<f, t, NoPath>> : f \in OrigNames, t \in Times}

\* the file part of a multipart form and its arrival time: <<file, t>>
FileParts ==
  {<<Undefined, clock>>} \cup {<<f, t>> : f \in OrigNames, t \in Times}

\* the ids of the rows of t that belong to somebody other than uid
ForeignIds(t, uid) == {id \in DOMAIN t : t[id].user_id # uid}

\* C1 (tenant isolation): whatever requests came before, a list request of a
\* user A on tasks, files, resources or notes carries no row owned by
\* another user, and an update or delete request of A that names the id of a
\* row owned by another user B leaves that row present and unchanged.  A
\* request is A's when it passed the gate on a session that carried A's id:
\* so it is when its handler runs or its awaited statement lands, whatever
\* happened to the session since, and so is a delete in each of its turns.
TenantIsolation ==
  /\ \A q \in Pending :
       q.row = "todo" =>
         LET o == DeleteRunOut(q, TRUE) IN
         /\ \A id \in ForeignIds(files, q.uid) : RowKept(files, o.files, id)
         /\ \A id \in ForeignIds(resources, q.uid) :
              RowKept(resources, o.resources, id)
  /\ \A r \in InFlight :
       \A id \in ForeignIds(resources, r.uid), bimg \in BodyImages,
          title \in OptStr, link \in OptOne :
         RowKept(resources,
                 UpdateResourceHandler(Take(r), r.uid, r.file, id, bimg,
                                       title, link).resources,
                 id)
  /\ \A c \in Due :
       LET A == c.uid IN
       /\ \A r \in ListHandler(From(c), A, "tasks", tasks).rows
                   \cup ListHandler(From(c), A, "files", files).rows
                   \cup ListHandler(From(c), A, "resources", resources).rows
                   \cup ListHandler(From(c), A, "notes", notes).rows :
            r.row.user_id = A
       /\ \A id \in ForeignIds(tasks, A) :
            /\ RowKept(tasks, DeleteTaskHandler(From(c), A, id).tasks, id)
            /\ \A title \in OptStr, category \in OptOne, completed \in OptDone :
                 RowKept(tasks,
                         UpdateTaskHandler(From(c), A, id, title, category,
                                           completed).tasks,
                         id)
       /\ \A id \in ForeignIds(notes, A) :
            /\ RowKept(notes, DeleteNoteHandler(From(c), A, id).notes, id)
            /\ \A content \in OptStr :
                 RowKept(notes,
                         UpdateNoteHandler(From(c), A, id, content).notes, id)
       /\ \A id \in ForeignIds(files, A) :
            RowKept(files,
                    DeleteSelectHandler(From(c), A, "files", id, TRUE).files,
                    id)
       /\ \A id \in ForeignIds(resources, A) :
            /\ GetResourceHandler(From(c), A, id).rows = {}
            /\ RowKept(resources,
                       DeleteSelectHandler(From(c), A, "resources", id,
                                           TRUE).resources,
                       id)
  /\ \A s \in Sess :
    isAuthenticated(s) =>
      LET A == sessions[s] IN
      /\ \A r \in ListTasksOut(s).rows \cup ListFilesOut(s).rows
                  \cup ListResourcesOut(s).rows \cup ListNotesOut(s).rows :
           r.row.user_id = A
      /\ \A id \in ForeignIds(tasks, A) :
           /\ RowKept(tasks, DeleteTaskOut(s, id).tasks, id)
           /\ \A title \in OptStr, category \in OptOne, completed \in OptDone :
                RowKept(tasks,
                        UpdateTaskOut(s, id, title, category, completed).tasks,
                        id)
      /\ \A id \in ForeignIds(notes, A) :
           /\ RowKept(notes, DeleteNoteOut(s, id).notes, id)
           /\ \A content \in OptStr :
                RowKept(notes, UpdateNoteOut(s, id, content).notes, id)
      /\ \A id \in ForeignIds(files, A) :
           /\ RowKept(files, DeleteFileOut(s, id).files, id)
           /\ RowKept(files, DeleteSelectOut(s, "files", id, TRUE).files, id)
      /\ \A id \in ForeignIds(resources, A) :
           /\ RowKept(resources, DeleteResourceOut(s, id).resources, id)
           /\ RowKept(resources,
                      DeleteSelectOut(s, "resources", id, TRUE).resources, id)
           /\ \A img \in ImageParts, title \in OptStr, link \in OptOne :
                RowKept(resources,
                        UpdateResourceOut(s, id, img[1], img[2], img[3],
                                          title, link).resources,
                        id)

\* C1, the case: user 2 owns a task and user 1 owns another; the statement
\* of a request that passed the gate as user 1 is due while the session it
\* came in on carries that id no longer (PostgreSQL variant); listed the
\* tasks, it gets its own only, and its update and its delete of the task of
\* user 2 are answered.
TenantIsolationCase ==
  \E c \in Due, id \in ForeignIds(tasks, 1), mine \in DOMAIN tasks :
    /\ c.uid = 1 /\ tasks[mine].user_id = 1
    /\ variant = "pg" /\ \A s \in Sess : sessions[s] # 1
    /\ ListHandler(From(c), 1, "tasks", tasks).rows
         = {[id |-> mine, row |-> tasks[mine]]}
    /\ UpdateTaskHandler(From(c), 1, id, "b", "a", "1").status = 200
    /\ DeleteTaskHandler(From(c), 1, id).status = 200

\* P holds of the outcome of every request a client can send on session s
\* to the protected routes: /api/user, /api/user/update and every route of
\* /api/tasks, /api/files, /api/resources, /api/notes and /api/topics (a
\* multipart request both at the gate and served in one go, a delete both
\* in its first turn and served in one go)
EveryProtected(s, P(_)) ==
  /\ P(ArriveOut(s))
  /\ \A route \in DeleteRoutes, id \in RowIds, ok \in BOOLEAN :
       P(DeleteSelectOut(s, route, id, ok))
  /\ P(GetUserOut(s)) /\ P(ListTasksOut(s)) /\ P(ListNotesOut(s))
  /\ P(ListFilesOut(s)) /\ P(ListResourcesOut(s)) /\ P(ListTopicsOut(s))
  /\ \A img \in ImageParts, name \in OptOne, email \in FormMails :
       P(UpdateUserOut(s, img[1], img[2], img[3], name, email, "a", Undefined))
  /\ \A title \in OptNew, category \in OptOne : P(CreateTaskOut(s, title, category))
  /\ \A id \in RowIds, title \in OptEdit, category \in OptOne,
        completed \in OptDone :
       P(UpdateTaskOut(s, id, title, category, completed))
  /\ \A content \in OptStr : P(CreateNoteOut(s, content))
  /\ \A id \in RowIds, content \in OptStr : P(UpdateNoteOut(s, id, content))
  /\ \A up \in FileParts, category \in OptNew :
       P(CreateFileOut(s, up[1], up[2], category))
  /\ \A up \in FileParts, title \in OptNew, link \in OptOne :
       P(CreateResourceOut(s, up[1], up[2], title, link))
  /\ \A id \in RowIds, img \in ImageParts, title \in OptEdit, link \in OptOne :
       P(UpdateResourceOut(s, id, img[1], img[2], img[3], title, link))
  /\ \A up \in FileParts, subject \in OptOne, link \in OptOne :
       P(CreateTopicOut(s, up[1], up[2], subject, "a", "a", link))
  /\ \A id \in RowIds, img \in ImageParts, subject \in OptEdit :
       P(UpdateTopicOut(s, id, img[1], img[2], img[3], subject, "a", "a",
                        Undefined))
  /\ \A id \in RowIds :
       /\ P(DeleteTaskOut(s, id)) /\ P(DeleteNoteOut(s, id))
       /\ P(DeleteFileOut(s, id)) /\ P(DeleteResourceOut(s, id))
       /\ P(DeleteTopicOut(s, id))
       /\ P(GetResourceOut(s, id)) /\ P(GetTopicOut(s, id))

\* answered 401 with nothing done: no database read or write, no upload
\* stored, no file reclaimed, no table, session or stored file changed
Gated(o) ==
  o.status = 401 /\ o.body = "error" /\ o.ops = {} /\ Untouched(o)
  /\ o.clock = clock /\ o.uploads = uploads /\ o.pending = pending

\* C2 (session gate): a request to any protected route on a session that
\* carries no user id is answered 401 and does nothing: it reads and writes
\* no table, stores no upload, reclaims no file, and no handler, statement
\* or upload of it is on its way; every request on its way to a handler
\* carried a user id at the gate.
SessionGate ==
  /\ \A s \in Sess : sessions[s] = 0 => EveryProtected(s, Gated)
  /\ \A r \in InFlight \cup Due : r.uid # 0

\* C2, the case: a client without a user id asks to delete a stored file
\* record whose upload is on disk, sending an upload of its own to another
\* route, while the owner of the record is signed in on the other session.
SessionGateCase ==
  \E s \in Sess, id \in DOMAIN files :
    /\ sessions[s] = 0
    /\ \E other \in Sess : sessions[other] = files[id].user_id
    /\ fs # {}
    /\ DeleteFileOut(s, id).status = 401
    /\ \A t \in Times : CreateFileOut(s, "f", t, "a").status = 401

\* the registered users that carry this username
Registered(username) == {u \in DOMAIN users : users[u].username = username}

\* C3 (login failure): a login with a registered username and a password
\* that is not the user's, and a login with a username nobody registered,
\* are both answered 401 and leave the session without a user id.
LoginFailureIsAuthError ==
  \A s \in Sess, username \in UserNames, password \in Passwords :
    LET o == LoginOut(s, username, password) IN
    /\ sessions[s] = 0
    /\ \A u \in Registered(username) : users[u].password # Hash(password)
    => o.status = 401 /\ o.sessions[s] = 0

\* the step is the end of a login of client s that the server accepts
LoginStep(s) ==
  \E r \in Comparing :
    /\ r.client = s /\ r.out[1] = 200
    /\ sessions' = LoginCompareOut(r).sessions
    /\ lapsed' = {x \in lapsed : sessions'[x] = 0}

\* the step is a logout on session s that the session store carries out
LogoutStep(s) ==
  \E ok \in BOOLEAN :
    LET o == LogoutOut(s, ok) IN
    o.status = 302 /\ sessions' = o.sessions /\ lapsed' = lapsed

\* the step is the expiry of the session of client s
ExpireStep(s) ==
  sessions' = [sessions EXCEPT ![s] = 0] /\ lapsed' = lapsed \cup {s}

\* the login of client s that has found user u with the password of the
\* form, and waits for bcrypt.compare
Matched(s, was, u) ==
  LoginRequest(s, was, Null, Null, <<200, "successRedirect", u>>)

\* a login with a registered username and its password is answered
\* {success, redirect} and binds the session to that user's id and to no
\* other: served with nothing in between, and turn by turn.  The request
\* gets to bcrypt.compare with the user it has found; when bcrypt.compare
\* ends it is answered, and the session carries the id of that user from
\* then on, or, when it carried that id already as the request arrived,
\* is left as the requests served in between have left it
LoginAccepted ==
  /\ \A s \in Sess, u \in DOMAIN users, password \in Passwords :
       users[u].password = Hash(password) =>
         /\ LET o == LoginOut(s, users[u].username, password) IN
            /\ o.status = 200 /\ o.body = "successRedirect"
            /\ o.sessions = [sessions EXCEPT ![s] = u]
            /\ o.users = users /\ o.seq = seq
         /\ LET o == LoginArriveOut(s, users[u].username, password) IN
            /\ o.status = 0 /\ o.sessions = sessions
            /\ o.logins = logins (+) SetToBag({
                            IF variant = "sqlite"
                              THEN Matched(s, sessions[s], u)
                              ELSE LoginRequest(s, sessions[s],
                                                users[u].username, password,
                                                <<0, "none", 0>>)})
         /\ \A r \in Selecting :
              r.username = users[u].username /\ r.password = password =>
                LoginSelectOut(r).logins =
                  (logins (-) SetToBag({r}))
                    (+) SetToBag({Matched(r.client, r.was, u)})
  /\ \A r \in Comparing :
       r.out[3] # 0 =>
         LET o == LoginCompareOut(r) IN
         /\ o.status = 200 /\ o.body = "successRedirect"
         /\ r.out[3] \in DOMAIN users
         /\ o.sessions = IF r.was = r.out[3]
                           THEN sessions
                           ELSE [sessions EXCEPT ![r.client] = r.out[3]]
         /\ o.users = users /\ o.seq = seq /\ o.logins = logins (-) SetToBag({r})

\* every row of `after` that `before` has not belongs to u, and so does every
\* row of `before` that `after` has not, or not as it was
OwnChange(before, after, u) ==
  /\ \A id \in DOMAIN after \ DOMAIN before : after[id].user_id = u
  /\ \A id \in DOMAIN before :
       id \notin DOMAIN after \/ after[id] # before[id]
         => before[id].user_id = u

\* the outcome o is that of a request that ran with u as owner id: the rows
\* it answers with are rows of u (or topics, which nobody owns), the rows it
\* wrote or removed are rows of u, and so is the user row it answers with or
\* wrote
RunsAs(o, u) ==
  /\ \A r \in o.rows :
       /\ "user_id" \in DOMAIN r.row => r.row.user_id = u
       /\ "username" \in DOMAIN r.row => r.id = u /\ r.row = users[u]
  /\ OwnChange(tasks, o.tasks, u) /\ OwnChange(notes, o.notes, u)
  /\ OwnChange(files, o.files, u) /\ OwnChange(resources, o.resources, u)
  /\ DOMAIN o.users = DOMAIN users
  /\ \A i \in DOMAIN users : o.users[i] # users[i] => i = u

\* a request that passed the gate with owner id c.uid is served with that
\* id, in whatever turn its statement runs and whatever its session carries
\* by then
DueRunsAs ==
  \A c \in Due :
    LET u == c.uid
        up == From(c) IN
    /\ GetUserHandler(up, u).rows \subseteq {[id |-> u, row |-> users[u]]}
    /\ RunsAs(GetUserHandler(up, u), u)
    /\ RunsAs(ListHandler(up, u, "tasks", tasks), u)
    /\ RunsAs(ListHandler(up, u, "notes", notes), u)
    /\ RunsAs(ListHandler(up, u, "files", files), u)
    /\ RunsAs(ListHandler(up, u, "resources", resources), u)
    /\ \A content \in OptStr : RunsAs(CreateNoteHandler(up, u, content), u)
    /\ \A title \in OptNew, category \in OptOne :
         RunsAs(CreateTaskHandler(up, u, title, category), u)
    /\ \A id \in RowIds :
         /\ RunsAs(DeleteTaskHandler(up, u, id), u)
         /\ RunsAs(DeleteNoteHandler(up, u, id), u)
         /\ RunsAs(GetResourceHandler(up, u, id), u)
         /\ \A content \in OptStr :
              RunsAs(UpdateNoteHandler(up, u, id, content), u)
         /\ \A title \in OptEdit, category \in OptOne, completed \in OptDone :
              RunsAs(UpdateTaskHandler(up, u, id, title, category, completed), u)
         /\ \A route \in DeleteRoutes, ok \in BOOLEAN :
              RunsAs(DeleteSelectHandler(up, u, route, id, ok), u)

\* the requests on a session bound to user u run with u as owner id: the
\* gate hands u to the handler, in the same turn or for a later one, and
\* the outcome of the request on every protected route is one of u
BoundRunsAs ==
  \A s \in Sess :
    sessions[s] # 0 =>
      LET u == sessions[s] IN
      /\ ArriveOut(s).uploads = uploads (+) SetToBag({Request(TRUE, u, NoPath)})
      /\ variant = "sqlite" => Request(TRUE, u, NoPath) \in Due
      /\ EveryProtected(s, LAMBDA o : RunsAs(o, u))
      /\ GetUserOut(s).rows = {[id |-> u, row |-> users[u]]}
      /\ CreateNoteOut(s, "a").notes[seq["notes"] + 1].user_id = u
      /\ CreateTaskOut(s, "a", "a").tasks[seq["tasks"] + 1].user_id = u
      /\ CreateResourceOut(s, Undefined, clock, "a", "a")
           .resources[seq["resources"] + 1].user_id = u
      /\ CreateFileOut(s, "f", clock, "a").files[seq["files"] + 1].user_id = u

\* C4 as it is stated (login binds the session): a login with a registered
\* username and its password is answered {success, redirect} and binds the
\* session to that user's id; every later protected request on the session
\* runs with that id as owner id, also when its statement runs in a later
\* turn than its gate, until a logout or the expiry of the session: nothing
\* else ends or changes the binding.
LoginBindsUntilLogout ==
  /\ [](LoginAccepted /\ BoundRunsAs /\ DueRunsAs)
  /\ [][\A s \in Sess :
          sessions[s] # 0 /\ sessions'[s] # sessions[s] =>
            LogoutStep(s) \/ ExpireStep(s)]_vars

\* C4, amended (login binds the session): a login with a registered
\* username and its password is answered {success, redirect} and binds the
\* session to that user's id; every later protected request on the session
\* runs with that id as owner id, also when its statement runs in a later
\* turn than its gate, until a logout, the expiry of the session,
\* or the next login on the session that the server accepts, which binds
\* the session to the user of that login.
LoginBinds ==
  /\ [](LoginAccepted /\ BoundRunsAs /\ DueRunsAs)
  /\ [][\A s \in Sess :
          sessions[s] # 0 /\ sessions'[s] # sessions[s] =>
            LogoutStep(s) \/ ExpireStep(s) \/ LoginStep(s)]_vars

\* C4, the case: each client is signed in with the other one's account, and
\* each user owns a note; the first client lists the note of user 2, and a
\* login with the account of user 1, sent from it while it was signed in as
\* user 2, is about to be answered and to bind it to user 1.
LoginBindsCase ==
  /\ sessions["s1"] = 2 /\ sessions["s2"] = 1
  /\ \E mine, other \in DOMAIN notes :
       /\ notes[mine].user_id = 2 /\ notes[other].user_id = 1
       /\ ListNotesOut("s1").rows = {[id |-> mine, row |-> notes[mine]]}
  /\ GetUserOut("s1").rows = {[id |-> 2, row |-> users[2]]}
  /\ Matched("s1", 2, 1) \in Comparing
  /\ LoginCompareOut(Matched("s1", 2, 1)).sessions["s1"] = 1

\* answered 401
Refused(o) == o.status = 401

\* C5 (logout): a logout destroys the caller's session: it is answered with
\* the redirect and leaves the session without a user id, touching nothing
\* else, so that every request that then comes in on the session is
\* answered 401 on every protected route until a login that the server
\* accepts; when the session carried no user id, the logout is answered
\* with the redirect too and changes no state at all.
LogoutEndsSession ==
  /\ [](\A s \in Sess, ok \in BOOLEAN :
          LET o == LogoutOut(s, ok) IN
          /\ o.status = 302 /\ o.body = "redirect"
          /\ o.sessions[s] = 0
          /\ \A other \in Sess \ {s} : o.sessions[other] = sessions[other]
          /\ Untouched([o EXCEPT !.sessions = sessions])
          /\ sessions[s] = 0 => Untouched(o))
  /\ [](\A s \in Sess :
          sessions[s] = 0 => EveryProtected(s, Refused))
  /\ [][\A s \in Sess :
          sessions[s] = 0 /\ sessions'[s] # 0 => LoginStep(s)]_vars

\* C6 (duplicate registration): a registration whose username or email is
\* that of a registered user is answered with a conflict error of the
\* 400/409 class, adds no user row and leaves the rows there unchanged.
RegisterConflictIsClientError ==
  \A username \in UserNames, email \in Emails, password \in Passwords,
     phone, socials \in OptOne :
    LET o == RegisterOut(Undefined, clock, username, "a", email, password,
                         phone, socials) IN
    (\E u \in DOMAIN users :
       users[u].username = username \/ users[u].email = email)
    => o.status \in {400, 409} /\ o.users = users

\* a form field that is missing or empty
Blank(v) == v = Undefined \/ v = ""

\* C7 (registration validation): a registration in which username, name,
\* email or password is missing or empty is answered 400 and persists no
\* user row.
RegisterValidation ==
  \A up \in FileParts, username \in FormNames, name \in OptNew,
     email \in FormMails \cup {""}, password \in FormPass \cup {""},
     phone \in OptOne :
    LET o == RegisterOut(up[1], up[2], username, name, email, password,
                         phone, Undefined) IN
    Blank(username) \/ Blank(name) \/ Blank(email) \/ Blank(password)
    => o.status = 400 /\ o.body = "error" /\ o.users = users /\ o.seq = seq

\* C7, the case: with user u1 registered, a registration of u2 that has
\* every field but the password is refused.
RegisterValidationCase ==
  /\ \E u \in DOMAIN users : users[u].username = "u1"
  /\ Registered("u2") = {}
  /\ \A password \in {Undefined, ""} :
       RegisterOut(Undefined, clock, "u2", "a", "e2", password,
                   "a", Undefined).status = 400
  /\ RegisterOut(Undefined, clock, "u2", "a", "e2", "p2",
                 "a", Undefined).status = 200

\* the outcome o is a successful list of exactly the rows of t owned by uid
ListsOwned(o, t, uid) ==
  /\ o.status = 200 /\ o.body = "rows"
  /\ \A r \in o.rows :
       r.id \in DOMAIN t /\ r.row = t[r.id] /\ r.row.user_id = uid
  /\ \A i \in DOMAIN t :
       t[i].user_id = uid => \E r \in o.rows : r.id = i /\ r.row = t[i]
  /\ (\A i \in DOMAIN t : t[i].user_id # uid) => o.rows = {}
  /\ Untouched(o)

\* C8 (list): a list request of a user U on tasks, files, resources or
\* notes is answered, with a success status, exactly the rows of that kind
\* that U owns in the store as it is when the SELECT runs (each of them, and
\* no other row), which is the empty list when U owns none.
ListExact ==
  /\ \A c \in Due :
       /\ ListsOwned(ListHandler(From(c), c.uid, "tasks", tasks), tasks, c.uid)
       /\ ListsOwned(ListHandler(From(c), c.uid, "files", files), files, c.uid)
       /\ ListsOwned(ListHandler(From(c), c.uid, "resources", resources),
                     resources, c.uid)
       /\ ListsOwned(ListHandler(From(c), c.uid, "notes", notes), notes, c.uid)
  /\ \A s \in Sess :
       sessions[s] # 0 =>
         /\ ListsOwned(ListTasksOut(s), tasks, sessions[s])
         /\ ListsOwned(ListFilesOut(s), files, sessions[s])
         /\ ListsOwned(ListResourcesOut(s), resources, sessions[s])
         /\ ListsOwned(ListNotesOut(s), notes, sessions[s])

\* C8, the case: user 1 owns two tasks and user 2 owns none; the list of a
\* request that passed the gate as user 1 has both, while user 2, signed in,
\* is listed nothing, with a success status.
ListExactCase ==
  \E c \in Due, s \in Sess :
    /\ c.uid = 1 /\ sessions[s] = 2
    /\ Cardinality(DOMAIN tasks) = 2
    /\ \A i \in DOMAIN tasks : tasks[i].user_id = 1
    /\ Cardinality(ListHandler(From(c), 1, "tasks", tasks).rows) = 2
    /\ ListTasksOut(s).rows = {} /\ ListTasksOut(s).status = 200

\* C9 (create validation): a create request of a signed-in user that lacks
\* a required field of its kind (title or category of a task, title or link
\* of a resource, the content of a note, the upload or the category of a
\* file record) is answered 400 and inserts no row.
CreateValidation ==
  \A s \in Sess :
    sessions[s] # 0 =>
      /\ \A title \in OptStr, category \in OptStr :
           LET o == CreateTaskOut(s, title, category) IN
           Blank(title) \/ Blank(category) => o.status = 400 /\ o.tasks = tasks
      /\ \A up \in FileParts, title \in OptStr, link \in OptStr :
           LET o == CreateResourceOut(s, up[1], up[2], title, link) IN
           Blank(title) \/ Blank(link)
           => o.status = 400 /\ o.resources = resources
      /\ \A content \in OptStr :
           LET o == CreateNoteOut(s, content) IN
           Blank(content) => o.status = 400 /\ o.notes = notes
      /\ \A up \in FileParts, category \in OptStr :
           LET o == CreateFileOut(s, up[1], up[2], category) IN
           up[1] = Undefined \/ Blank(category)
           => o.status = 400 /\ o.files = files

\* what the client gets to see of an outcome
Response(o) == <<o.status, o.body, o.rows>>

\* the update leaves every table as it is
NoRowModified(o) ==
  /\ o.tasks = tasks /\ o.notes = notes /\ o.resources = resources
  /\ o.files = files /\ o.topics = topics /\ o.users = users

\* C10 (update tells nothing): for a valid update body, an update request
\* of a user on tasks, notes or resources gets the same success response
\* whether the id names a row of the caller, a row of another user or no
\* row; in the last two cases no row is modified.  The caller is the user
\* whose id the request carried at the gate.
UpdateTellsNothing ==
  /\ \A c \in Due, id \in RowIds :
       /\ \A title \in Strs, category \in Strs, completed \in {"0", "1"} :
            LET o == UpdateTaskHandler(From(c), c.uid, id, title, category,
                                       completed) IN
            /\ Response(o) = <<200, "success", {}>>
            /\ ~(id \in DOMAIN tasks /\ tasks[id].user_id = c.uid)
                 => NoRowModified(o)
       /\ \A content \in Strs :
            LET o == UpdateNoteHandler(From(c), c.uid, id, content) IN
            /\ Response(o) = <<200, "success", {}>>
            /\ ~(id \in DOMAIN notes /\ notes[id].user_id = c.uid)
                 => NoRowModified(o)
  /\ \A r \in InFlight, id \in RowIds, bimg \in BodyImages, title \in Strs,
        link \in Strs :
       LET o == UpdateResourceHandler(Take(r), r.uid, r.file, id, bimg,
                                      title, link) IN
       /\ Response(o) = <<200, "success", {}>>
       /\ ~(id \in DOMAIN resources /\ resources[id].user_id = r.uid)
            => NoRowModified(o)
  /\ \A s \in Sess :
    sessions[s] # 0 =>
      \A id \in RowIds :
        /\ \A title \in Strs, category \in Strs, completed \in {"0", "1"} :
             LET o == UpdateTaskOut(s, id, title, category, completed) IN
             /\ Response(o) = <<200, "success", {}>>
             /\ ~(id \in DOMAIN tasks /\ tasks[id].user_id = sessions[s])
                  => NoRowModified(o)
        /\ \A content \in Strs :
             LET o == UpdateNoteOut(s, id, content) IN
             /\ Response(o) = <<200, "success", {}>>
             /\ ~(id \in DOMAIN notes /\ notes[id].user_id = sessions[s])
                  => NoRowModified(o)
        /\ \A img \in ImageParts, title \in Strs, link \in Strs :
             LET o == UpdateResourceOut(s, id, img[1], img[2], img[3],
                                        title, link) IN
             /\ Response(o) = <<200, "success", {}>>
             /\ ~(id \in DOMAIN resources
                    /\ resources[id].user_id = sessions[s])
                  => NoRowModified(o)

\* C10, the case: two tasks are stored, one of user 1 and one of user 2,
\* and the update of a request that passed the gate as user 1 is due; it is
\* answered alike on both ids and on an id without a row, and changes the
\* first task only.
UpdateTellsNothingCase ==
  \E c \in Due, mine \in DOMAIN tasks, id \in ForeignIds(tasks, 1) :
    LET own    == UpdateTaskHandler(From(c), 1, mine, "b", "a", "1")
        other  == UpdateTaskHandler(From(c), 1, id, "b", "a", "1")
    IN
    /\ c.uid = 1 /\ tasks[mine].user_id = 1 /\ tasks[mine].title # "b"
    /\ own.tasks # tasks /\ other.tasks = tasks
    /\ Response(own) = Response(other)

\* a field the request does not supply has in `new` the value it has in `old`
Kept(supplied, old, new) == supplied = Undefined => new = old

\* the ids of the rows of t that belong to uid
OwnIds(t, uid) == {id \in DOMAIN t : t[id].user_id = uid}

\* C11 (partial update): an update request of a signed-in user on a task,
\* resource or note the user owns, on a topic, or on the user's own profile
\* leaves every field that the request does not supply as it was before.
PartialUpdateKeeps ==
  \A s \in Sess :
    sessions[s] # 0 =>
      LET uid == sessions[s] IN
      /\ \A id \in OwnIds(tasks, uid), title \in OptEdit, category \in OptEdit,
            completed \in OptDone :
           LET new == UpdateTaskOut(s, id, title, category, completed).tasks[id]
           IN /\ Kept(title, tasks[id].title, new.title)
              /\ Kept(category, tasks[id].category, new.category)
              /\ Kept(completed, tasks[id].completed, new.completed)
      /\ \A id \in OwnIds(notes, uid) :
           Kept(Undefined, notes[id].content,
                UpdateNoteOut(s, id, Undefined).notes[id].content)
      /\ \A id \in OwnIds(resources, uid), title \in OptEdit, link \in OptEdit :
           LET new == UpdateResourceOut(s, id, Undefined, clock, NoPath,
                                        title, link).resources[id]
           IN /\ Kept(title, resources[id].title, new.title)
              /\ Kept(link, resources[id].link, new.link)
              /\ new.image = resources[id].image
      /\ \A id \in DOMAIN topics, subject \in OptEdit, link \in OptEdit :
           LET new == UpdateTopicOut(s, id, Undefined, clock, NoPath, subject,
                                     "b", "b", link).topics[id]
           IN /\ Kept(subject, topics[id].subject, new.subject)
              /\ Kept(link, topics[id].link, new.link)
              /\ new.image = topics[id].image
      /\ \A name \in OptEdit, phone \in OptEdit, socials \in OptEdit :
           LET new == UpdateUserOut(s, Undefined, clock, NoPath, name,
                                    users[uid].email, phone, socials).users[uid]
           IN /\ Kept(name, users[uid].name, new.name)
              /\ Kept(phone, users[uid].phone, new.phone)
              /\ Kept(socials, users[uid].socials, new.socials)
              /\ new.profile_pic = users[uid].profile_pic

\* C12 (image kept): an update of a resource by its owner that supplies
\* title and link, but neither an image file nor an image field, is accepted
\* and leaves the stored image path of the row as it was.
ResourceImageKept ==
  /\ \A s \in Sess :
       sessions[s] # 0 =>
         \A id \in OwnIds(resources, sessions[s]), title \in Strs,
            link \in Strs :
           LET o == UpdateResourceOut(s, id, Undefined, clock, NoPath, title,
                                      link)
           IN /\ o.status = 200
              /\ o.resources[id].image = resources[id].image
              /\ o.resources[id].title = title /\ o.resources[id].link = link
              /\ o.fs = fs
  /\ \A r \in InFlight :
       r.file = NoPath =>
         \A id \in OwnIds(resources, r.uid), title \in Strs, link \in Strs :
           LET o == UpdateResourceHandler(Take(r), r.uid, r.file, id, NoPath,
                                          title, link)
           IN /\ o.status = 200
              /\ o.resources[id].image = resources[id].image
              /\ o.resources[id].title = title /\ o.resources[id].link = link
              /\ o.fs = fs

\* C12, the case: the owner of a resource that has an image has a
\* multipart request without a file past the gate, and the update handler
\* changes the title of the resource for it.
ResourceImageKeptCase ==
  \E r \in InFlight, id \in DOMAIN resources :
    /\ r.uid = resources[id].user_id /\ r.file = NoPath
    /\ resources[id].image # NoPath
    /\ resources[id].title # "b"
    /\ UpdateResourceHandler(Take(r), r.uid, r.file, id, NoPath, "b", "a")
         .resources[id].title = "b"

\* the delete answered success and the row id is gone from table t
Deleted(o, t, id) == o.status = 200 /\ o.body = "success" /\ id \notin DOMAIN t

\* the table of a delete route in outcome o
RowsOf(o, route) ==
  IF route = "files" THEN o.files
  ELSE IF route = "resources" THEN o.resources ELSE o.topics

\* C13 (best-effort reclamation): a delete of an owned file record, of an
\* owned resource with an image or of a topic with an image removes the row
\* and answers success, whatever becomes of the file: the path handed to
\* fs.unlink is in the upload storage and the file is removed, or it is not
\* there, or the file is there and the removal fails; nothing else leaves
\* the storage.  In the turns of the request: the handler hands the path
\* over and goes on to its DELETE, which removes the row and answers
\* success whether the unlink has ended or not and however it ended, and
\* the end of the unlink touches no row, whichever way it ends.
DeleteSurvivesUnlink ==
  /\ \A q \in Pending :
       /\ q.row = "todo" /\ q.target # NoPath /\ Hit(q) =>
            LET o == DeleteRunOut(q, TRUE) IN
            Deleted(o, RowsOf(o, q.route), q.id) /\ o.fs = fs
       /\ q.unlink = "issued" =>
            /\ LET o == UnlinkDoneOut(q, TRUE) IN
               /\ o.fs = fs \ {UnlinkPath(isProduction, q.target)}
               /\ Untouched([o EXCEPT !.fs = fs])
            /\ LET o == UnlinkDoneOut(q, FALSE) IN
               Untouched(o) /\ o.status = 0
  /\ \A c \in Due, route \in DeleteRoutes, id \in RowIds :
       LET o == DeleteSelectHandler(From(c), c.uid, route, id, TRUE)
           q == Deleting(route, id, c.uid, Selected(route, id, c.uid))
       IN
       q.target # NoPath =>
         /\ o.fs = fs /\ "unlink" \in o.ops
         /\ variant = "sqlite" =>
              /\ Deleted(o, RowsOf(o, route), id)
              /\ Left([q EXCEPT !.row = "done"]) \sqsubseteq o.pending
         /\ variant = "pg" =>
              /\ q \in BagToSet(o.pending)
              /\ Deleted(DeleteRunOut(q, TRUE),
                         RowsOf(DeleteRunOut(q, TRUE), route), id)
  /\ \A s \in Sess :
    sessions[s] # 0 =>
      /\ \A id \in OwnIds(files, sessions[s]) :
           LET o == DeleteFileOut(s, id) IN
           /\ Deleted(o, o.files, id)
           /\ o.fs = fs \ {UnlinkPath(isProduction, files[id].filename)}
      /\ \A id \in OwnIds(resources, sessions[s]) :
           resources[id].image # NoPath =>
             LET o == DeleteResourceOut(s, id) IN
             /\ Deleted(o, o.resources, id)
             /\ o.fs = fs \ {UnlinkPath(isProduction, resources[id].image)}
      /\ \A id \in DOMAIN topics :
           topics[id].image # NoPath =>
             LET o == DeleteTopicOut(s, id) IN
             /\ Deleted(o, o.topics, id)
             /\ o.fs = fs \ {UnlinkPath(isProduction, topics[id].image)}

\* C13, the case: the row of a delete request is gone and the request was
\* answered, while its unlink, handed a path whose file is in the storage,
\* has not ended, and ends with the file still there.
DeleteSurvivesUnlinkCase ==
  \E q \in Pending :
    /\ q.row = "done" /\ q.unlink = "issued"
    /\ UnlinkPath(isProduction, q.target) \in fs
    /\ UnlinkDoneOut(q, FALSE).fs = fs
    /\ UnlinkDoneOut(q, FALSE).pending = EmptyBag

\* where the upload handler stored the file that the row path url names
StoredFor(prod, url) == <<UploadsDir(prod), url[2], url[3]>>

\* C14 (delete reclaims the image): when the owner deletes a resource that
\* has an image, in the development and in the production configuration,
\* the row is absent from the list the owner then gets and the file the
\* upload handler stored for the image is absent from the upload storage.
ResourceDeleteReclaims ==
  \A s \in Sess :
    sessions[s] # 0 =>
      \A id \in OwnIds(resources, sessions[s]) :
        resources[id].image # NoPath =>
          LET o == DeleteResourceOut(s, id) IN
          /\ id \notin {r.id : r \in SelectByOwner(o.resources, sessions[s])}
          /\ StoredFor(isProduction, resources[id].image) \notin o.fs

\* C15 (topics are global): every signed-in user lists every topic and
\* creates, updates and deletes any topic, and a topic request has the same
\* response and the same effect whichever signed-in user sends it: the
\* handler of every topics route does the same for every user id that a
\* request can carry, and a delete keeps no user id for its later turns.
TopicsGlobal ==
  /\ \A q \in Pending :
       q.route = "topics" /\ q.id \in DOMAIN topics =>
         Deleted(DeleteRunOut(q, TRUE), DeleteRunOut(q, TRUE).topics, q.id)
  /\ \A c \in Due, uid \in DOMAIN users :
       /\ ListTopicsHandler(From(c), c.uid).rows = SelectAll(topics)
       /\ ListTopicsHandler(From(c), c.uid) = ListTopicsHandler(From(c), uid)
       /\ \A id \in RowIds :
            /\ GetTopicHandler(From(c), c.uid, id)
                 = GetTopicHandler(From(c), uid, id)
            /\ DeleteSelectHandler(From(c), c.uid, "topics", id, TRUE)
                 = DeleteSelectHandler(From(c), uid, "topics", id, TRUE)
       /\ \A id \in DOMAIN topics :
            LET o == DeleteSelectHandler(From(c), c.uid, "topics", id, TRUE) IN
            IF variant = "sqlite"
              THEN Deleted(o, o.topics, id)
              ELSE \E q \in BagToSet(o.pending) :
                     q.route = "topics" /\ q.id = id /\ q.uid = 0
  /\ \A q \in InFlight, uid \in DOMAIN users :
       /\ \A subject \in OptNew, link \in OptOne :
            CreateTopicHandler(Take(q), q.uid, q.file, subject, "a", "a", link)
              = CreateTopicHandler(Take(q), uid, q.file, subject, "a", "a",
                                   link)
       /\ \A id \in RowIds, bimg \in BodyImages, subject \in OptEdit :
            UpdateTopicHandler(Take(q), q.uid, q.file, id, bimg, subject, "b",
                               "b", "b")
              = UpdateTopicHandler(Take(q), uid, q.file, id, bimg, subject,
                                   "b", "b", "b")
       /\ \A id \in DOMAIN topics :
            LET o == UpdateTopicHandler(Take(q), q.uid, q.file, id, NoPath,
                                        "b", "b", "b", "b") IN
            o.status = 200 /\ o.topics[id].subject = "b"
  /\ \A s \in Sess :
    sessions[s] # 0 =>
      /\ ListTopicsOut(s).rows = SelectAll(topics)
      /\ LET o == CreateTopicOut(s, Undefined, clock, "a", "a", "a", "a") IN
         o.status = 200 /\ DOMAIN o.topics = DOMAIN topics \cup {seq.topics + 1}
      /\ \A id \in DOMAIN topics :
           /\ GetTopicOut(s, id).rows = {[id |-> id, row |-> topics[id]]}
           /\ LET o == UpdateTopicOut(s, id, Undefined, clock, NoPath,
                                      "b", "b", "b", "b") IN
              o.status = 200 /\ o.topics[id].subject = "b"
           /\ Deleted(DeleteTopicOut(s, id), DeleteTopicOut(s, id).topics, id)
      /\ \A r \in Sess :
           sessions[r] # 0 =>
             /\ ListTopicsOut(s) = ListTopicsOut(r)
             /\ \A p \in FileParts, subject \in OptNew, link \in OptOne :
                  CreateTopicOut(s, p[1], p[2], subject, "a", "a", link)
                    = CreateTopicOut(r, p[1], p[2], subject, "a", "a", link)
             /\ \A id \in RowIds :
                  /\ GetTopicOut(s, id) = GetTopicOut(r, id)
                  /\ DeleteTopicOut(s, id) = DeleteTopicOut(r, id)
                  /\ DeleteSelectOut(s, "topics", id, TRUE)
                       = DeleteSelectOut(r, "topics", id, TRUE)
                  /\ \A p \in ImageParts, subject \in OptEdit :
                       UpdateTopicOut(s, id, p[1], p[2], p[3],
                                      subject, "b", "b", "b")
                         = UpdateTopicOut(r, id, p[1], p[2], p[3],
                                          subject, "b", "b", "b")

\* C15, the case: two different users are signed in and the catalogue holds
\* a topic, which one of the two did not create; both list it and the delete
\* of either removes it.
TopicsGlobalCase ==
  \E s, r \in Sess, id \in DOMAIN topics :
    /\ sessions[s] # 0 /\ sessions[r] # 0 /\ sessions[s] # sessions[r]
    /\ id \in {x.id : x \in ListTopicsOut(s).rows}
    /\ id \in {x.id : x \in ListTopicsOut(r).rows}
    /\ id \notin DOMAIN DeleteTopicOut(s, id).topics
    /\ id \notin DOMAIN DeleteTopicOut(r, id).topics

\* C16 (topic validation): a topic create or update request of a signed-in
\* user in which subject, subtopic or explanation is missing is answered
\* 400 and leaves the topics table as it was.
TopicValidation ==
  \A s \in Sess :
    sessions[s] # 0 =>
      \A subject, subtopic, explanation \in OptOne :
        Undefined \in {subject, subtopic, explanation} =>
          /\ LET o == CreateTopicOut(s, Undefined, clock,
                                     subject, subtopic, explanation, "a") IN
             o.status = 400 /\ o.topics = topics
          /\ \A id \in DOMAIN topics :
               LET o == UpdateTopicOut(s, id, Undefined, clock, NoPath,
                                       subject, subtopic, explanation, "a") IN
               o.status = 400 /\ o.topics = topics

\* C17 (profile update takes any subset): a profile update of a signed-in
\* user that supplies none, some or all of name, email (the user's own),
\* phone, socials and a profile picture is answered success.
ProfileAnySubset ==
  \A s \in Sess :
    sessions[s] # 0 =>
      \A p \in FileParts, name, phone, socials \in OptOne,
         email \in {Undefined, users[sessions[s]].email} :
        LET o == UpdateUserOut(s, p[1], p[2], NoPath,
                               name, email, phone, socials) IN
        o.status = 200 /\ o.body = "success"

\* C18 (no password in the profile): the response of GET /api/user to a
\* signed-in user is that user's own record and carries no password hash.
ProfileHidesPassword ==
  \A s \in Sess :
    sessions[s] \in DOMAIN users =>
      LET o == GetUserOut(s) IN
      /\ o.status = 200
      /\ \A r \in o.rows :
           /\ r.id = sessions[s]
           /\ r.row.username = users[sessions[s]].username
           /\ "password" \notin DOMAIN r.row

\* C19 (unique username and email): in every state reached by register and
\* profile update requests no two user rows have the same username and no
\* two user rows have the same email.
UsersUnique ==
  \A i, j \in DOMAIN users :
    i # j => /\ users[i].username # users[j].username
             /\ users[i].email # users[j].email

\* the task id is in the list the owner uid gets from table t, with
\* completed among the values vs
ListedAs(t, uid, id, vs) ==
  \E r \in SelectByOwner(t, uid) : r.id = id /\ r.row.completed \in vs

\* C20 (task lifecycle): a task a user creates is listed for that user with
\* completed false; a PUT by the owner that carries only completed = true is
\* accepted and the list then shows the task with completed true; a DELETE
\* by the owner makes the list omit the task.
TaskLifecycle ==
  \A s \in Sess :
    sessions[s] # 0 =>
      LET uid == sessions[s] IN
      /\ LET o == CreateTaskOut(s, "a", "a") IN
         /\ o.status = 200
         /\ ListedAs(o.tasks, uid, seq.tasks + 1, {"0", "false"})
      /\ \A id \in OwnIds(tasks, uid) :
           /\ LET o == UpdateTaskOut(s, id, Undefined, Undefined, "1") IN
              /\ o.status = 200
              /\ ListedAs(o.tasks, uid, id, {"1", "true"})
           /\ LET o == DeleteTaskOut(s, id) IN
              /\ o.status = 200
              /\ id \notin {r.id : r \in SelectByOwner(o.tasks, uid)}

\* C21 (the upload store never overwrites): whatever file part arrives next
\* and whenever it arrives, the same millisecond as the upload before it
\* included, the name the upload handler gives it is the name of no file in
\* the upload storage, so that storing it replaces no stored file.
StoreNeverOverwrites ==
  \A f \in OrigNames, t \in Times :
    StoredAt(isProduction, StoredName(t, f)) \notin fs

\* the upload of file part f at time t replaces the stored file of path old
Supersedes(f, t, old) ==
  /\ old # NoPath
  /\ StoredFor(isProduction, old) \in fs
  /\ StoredAt(isProduction, StoredName(t, f)) # StoredFor(isProduction, old)

\* C23 (a superseded file is removed): when an accepted update replaces the
\* uploaded image of a resource or of a topic, or a user's profile picture,
\* by a new upload, the file that was stored for the old one is no longer
\* in the upload storage.
SupersededRemoved ==
  \A s \in Sess, f \in OrigNames, t \in Times :
    sessions[s] # 0 =>
      /\ \A id \in OwnIds(resources, sessions[s]) :
           LET o == UpdateResourceOut(s, id, f, t, NoPath, "b", "b") IN
           Supersedes(f, t, resources[id].image) /\ o.status = 200
             => StoredFor(isProduction, resources[id].image) \notin o.fs
      /\ \A id \in DOMAIN topics :
           LET o == UpdateTopicOut(s, id, f, t, NoPath, "b", "b", "b", "b") IN
           Supersedes(f, t, topics[id].image) /\ o.status = 200
             => StoredFor(isProduction, topics[id].image) \notin o.fs
      /\ LET uid == sessions[s]
             o == UpdateUserOut(s, f, t, NoPath, "a", users[uid].email,
                                Undefined, Undefined) IN
         uid \in DOMAIN users /\ Supersedes(f, t, users[uid].profile_pic)
           /\ o.status = 200
           => StoredFor(isProduction, users[uid].profile_pic) \notin o.fs

\* a response that is a validation error or an auth error
Rejected(o) == o.status \in {400, 401}

\* C24 (a rejected request changes nothing): a request answered 400 or 401
\* leaves the database and the upload storage as they were, multipart
\* requests that carry a file included.
RejectionChangesNothing ==
  \A s \in Sess, p \in FileParts, a, b \in OptOne :
    /\ LET o == RegisterOut(p[1], p[2], a, b, "e1", "p1", a, b) IN
       Rejected(o) => Untouched(o)
    /\ LET o == CreateFileOut(s, p[1], p[2], a) IN
       Rejected(o) => Untouched(o)
    /\ LET o == CreateResourceOut(s, p[1], p[2], a, b) IN
       Rejected(o) => Untouched(o)
    /\ LET o == CreateTopicOut(s, p[1], p[2], a, b, "a", "a") IN
       Rejected(o) => Untouched(o)
    /\ \A id \in RowIds :
         /\ LET o == UpdateResourceOut(s, id, p[1], p[2], NoPath, a, b) IN
            Rejected(o) => Untouched(o)
         /\ LET o == UpdateTopicOut(s, id, p[1], p[2], NoPath,
                                    a, b, "a", "a") IN
            Rejected(o) => Untouched(o)

\* a login attempt that fails, for an unknown username, a wrong password
\* or a missing field, leaves every session bound as it was, the one it was
\* made on included, in the turn in which it arrives, in the turn of its
\* SELECT and in the turn in which it is answered; a login binds a session
\* only when it is accepted, and then the one it was made on only;
\* registration and the profile read leave the sessions alone
FailedLoginKeeps ==
  /\ \A s \in Sess :
       /\ \A username \in FormNames, password \in FormPass :
            /\ LET o == LoginOut(s, username, password) IN
               /\ o.status # 200 => o.sessions = sessions
               /\ o.sessions # sessions =>
                    /\ o.status = 200
                    /\ o.sessions = [sessions EXCEPT ![s] = o.sessions[s]]
                    /\ o.sessions[s] \in UserByName(username)
            /\ LoginArriveOut(s, username, password).sessions = sessions
            /\ LoginArriveOut(s, username, password).status # 200
       /\ GetUserOut(s).sessions = sessions
       /\ \A username \in FormNames, email \in FormMails :
            RegisterOut(Undefined, clock, username, "a", email, "p1",
                        Undefined, Undefined).sessions = sessions
  /\ \A r \in Selecting :
       LoginSelectOut(r).sessions = sessions /\ LoginSelectOut(r).status # 200
  /\ \A r \in Comparing :
       LET o == LoginCompareOut(r) IN
       /\ r.out[3] = 0 => o.status \in {400, 401, 500} /\ o.sessions = sessions
       /\ o.sessions # sessions =>
            /\ o.status = 200
            /\ o.sessions = [sessions EXCEPT ![r.client] = r.out[3]]
            /\ r.out[3] \in DOMAIN users

\* C30 as it is stated (a failed login keeps the session): a login attempt
\* that fails on a session bound to user U leaves the session bound to U;
\* only a successful login or a logout changes the user id of a session.
OnlyLoginOrLogout ==
  /\ []FailedLoginKeeps
  /\ [][\A s \in Sess :
          sessions'[s] # sessions[s] => LoginStep(s) \/ LogoutStep(s)]_vars

\* C30, amended (a failed login keeps the session): a login attempt that
\* fails on a session bound to user U leaves the session bound to U; only a
\* successful login, a logout or the expiry of the session changes the user
\* id of a session.
FailedLoginKeepsSession ==
  /\ []FailedLoginKeeps
  /\ [][\A s \in Sess :
          sessions'[s] # sessions[s] =>
            LoginStep(s) \/ LogoutStep(s) \/ ExpireStep(s)]_vars

\* C30, the case: a session is bound to a user and a login with a wrong
\* password, one with an unknown or missing username and one without
\* password are made on it; each fails and the session stays bound; a
\* login with a wrong password, sent from the session when it was bound
\* already, is about to be answered.
FailedLoginKeepsSessionCase ==
  \E s \in Sess :
    /\ sessions[s] # 0
    /\ \E r \in Comparing :
         /\ r.client = s /\ r.was = sessions[s] /\ r.out[3] = 0
         /\ LoginCompareOut(r).status \in {400, 401}
         /\ LoginCompareOut(r).sessions[s] = sessions[s]
    /\ \E username \in UserNames, password \in Passwords :
         /\ UserByName(username) # {}
         /\ LoginOut(s, username, password).status \in {400, 401}
         /\ LoginOut(s, username, password).sessions[s] = sessions[s]
    /\ \E username \in FormNames :
         /\ UserByName(username) = {}
         /\ LoginOut(s, username, "p1").status # 200
         /\ LoginOut(s, username, "p1").sessions[s] = sessions[s]
    /\ LoginOut(s, "u1", Undefined).status # 200
    /\ LoginOut(s, "u1", Undefined).sessions[s] = sessions[s]

\* every row of table t that is also in table u has the owner it has in t
SameOwners(t, u) ==
  \A id \in DOMAIN t \cap DOMAIN u : u[id].user_id = t[id].user_id

\* the row o adds to a table that had `before` rows ids belongs to session s
CreatedFor(s, before, after, name) ==
  seq[name] + 1 \in DOMAIN after \ DOMAIN before
    => after[seq[name] + 1].user_id = sessions[s]

\* every row that the step adds to table t belongs to the user of a request
\* whose handler could run in the step
AddedForCaller(t, after) ==
  \A id \in DOMAIN after \ DOMAIN t :
    \E c \in Due \cup InFlight : after[id].user_id = c.uid

\* C29 (the owner never changes): a row that a request creates in the tasks,
\* files, resources or notes table gets the user id of the session that sent
\* the request, which is the user id the session carried when the request
\* passed the gate, whenever the INSERT lands; every step that adds a row
\* gives it the user id of a request that is served in the step; and no step
\* of any user changes the user_id of a row that exists before and after it.
OwnerNeverChanges ==
  /\ [](\A r \in InFlight :
          /\ LET o == CreateFileHandler(Take(r), r.uid, r.file, "a") IN
             seq["files"] + 1 \in DOMAIN o.files
               => o.files[seq["files"] + 1].user_id = r.uid
          /\ LET o == CreateResourceHandler(Take(r), r.uid, r.file, "a", "a") IN
             seq["resources"] + 1 \in DOMAIN o.resources
               => o.resources[seq["resources"] + 1].user_id = r.uid)
  /\ [](\A c \in Due :
          /\ LET o == CreateTaskHandler(From(c), c.uid, "a", "a") IN
             /\ seq["tasks"] + 1 \in DOMAIN o.tasks
             /\ o.tasks[seq["tasks"] + 1].user_id = c.uid
          /\ LET o == CreateNoteHandler(From(c), c.uid, "a") IN
             /\ seq["notes"] + 1 \in DOMAIN o.notes
             /\ o.notes[seq["notes"] + 1].user_id = c.uid)
  /\ [](\A s \in Sess :
          sessions[s] # 0 =>
            /\ CreatedFor(s, tasks, CreateTaskOut(s, "a", "a").tasks, "tasks")
            /\ CreatedFor(s, notes, CreateNoteOut(s, "a").notes, "notes")
            /\ CreatedFor(s, files,
                          CreateFileOut(s, "f", clock, "a").files, "files")
            /\ CreatedFor(s, resources,
                          CreateResourceOut(s, Undefined, clock, "a", "a")
                            .resources, "resources"))
  /\ [][/\ AddedForCaller(tasks, tasks') /\ AddedForCaller(notes, notes')
        /\ AddedForCaller(files, files')
        /\ AddedForCaller(resources, resources')]_vars
  /\ [][/\ SameOwners(tasks, tasks') /\ SameOwners(notes, notes')
        /\ SameOwners(files, files') /\ SameOwners(resources, resources')]_vars

\* C29, the case: a task carries the title that only an update writes, so
\* that an update has acted on it; it belongs to user 1, who is signed in
\* on no session, while the update of a request that passed the gate as
\* user 2 is due and names the task (PostgreSQL variant).
OwnerNeverChangesCase ==
  \E id \in DOMAIN tasks, c \in Due :
    /\ variant = "pg" /\ \A s \in Sess : sessions[s] # 1
    /\ tasks[id].title = "b" /\ tasks[id].user_id = 1
    /\ c.uid = 2
    /\ UpdateTaskHandler(From(c), 2, id, "b", "a", "1").status = 200

\* the stored files that the file records and the resources of users other
\* than uid reference
FilesOfOthers(uid) ==
  {StoredFor(isProduction, files[id].filename) :
     id \in {i \in DOMAIN files : files[i].user_id # uid}}
  \cup {StoredFor(isProduction, resources[id].image) :
          id \in {i \in DOMAIN resources :
                    resources[i].user_id # uid /\ resources[i].image # NoPath}}

\* C27 (a delete removes no file of another user): the delete of a resource
\* by its owner removes from the upload storage no file that a file record
\* or a resource of another user references, whatever image paths earlier
\* update requests put into the row.
DeleteSparesOthers ==
  \A s \in Sess :
    sessions[s] # 0 =>
      \A id \in OwnIds(resources, sessions[s]) :
        FilesOfOthers(sessions[s]) \cap fs \subseteq DeleteResourceOut(s, id).fs

\* C26 (the variants are equivalent): in every state, which both variants
\* reach by the same requests as long as they agreed, the SQLite variant and
\* the PostgreSQL variant answer a login with the same status and body and
\* bind the same user, and they accept and reject the same task create and
\* task update requests.
VariantsAgree ==
  /\ \A username \in FormNames, password \in FormPass :
       LoginOutcomeIn("sqlite", username, password)
         = LoginOutcomeIn("pg", username, password)
  /\ \A title \in OptNew, category \in OptOne :
       TaskCreateInvalidIn("sqlite", title, category)
         = TaskCreateInvalidIn("pg", title, category)
  /\ \A title \in OptEdit, category \in OptEdit, completed \in OptDone :
       TaskUpdateInvalidIn("sqlite", title, category, completed)
         = TaskUpdateInvalidIn("pg", title, category, completed)

\* C25 (failures are generic JSON errors): whenever a request is answered
\* 500, because the store failed or the handler raised, the body is the JSON
\* object {error: string}, never a page with a stack trace; on the login,
\* registration and upload routes of both variants.
FailureIsJsonError ==
  \A s \in Sess :
    /\ \A username \in FormNames, password \in FormPass :
         LET o == LoginOut(s, username, password) IN
         o.status = 500 => o.body = "error"
    /\ \A username \in UserNames, email \in Emails :
         LET o == RegisterOut(Undefined, clock, username, "a", email, "p1",
                              Undefined, Undefined) IN
         o.status = 500 => o.body = "error"
    /\ \A p \in FileParts, category \in OptOne :
         LET o == CreateFileOut(s, p[1], p[2], category) IN
         o.status = 500 => o.body = "error"

\* C22 (a file record references a stored file): in every state, the
\* states between the steps of a delete request and the state after a
\* DELETE statement that failed included, the stored path of every row of
\* the files table names a file that is in the upload storage.
FileRowsHaveFiles ==
  \A id \in DOMAIN files : StoredFor(isProduction, files[id].filename) \in fs

\* the DELETE statement of delete request q removes resource id, which the
\* request found with an image when it read the row
Removes(q, id) ==
  /\ q.route = "resources" /\ q.row = "todo"
  /\ q.id = id /\ q.target # NoPath
  /\ q \notin BagToSet(pending')
  /\ id \in DOMAIN resources /\ id \notin DOMAIN resources'

\* C28 (delete racing an image replacement): in the PostgreSQL variant, when
\* the delete of a resource runs while its owner replaces the image of the
\* resource, the file the delete hands to unlink is the file the row
\* references at the moment the row is removed.
DeleteReclaimsCurrentImage ==
  [][variant = "pg" =>
       \A q \in Pending, id \in RowIds :
         Removes(q, id) => q.target = resources[id].image]_vars

====
